---- MODULE Spec2Model ----
(***************************************************************************)
(* Payment-gated entitlement and sequential progression of the learning    *)
(* platform backend: the Payment state machine (routes/payments.js,        *)
(* models/Payment.js), the entitlement check and the progression tracker   *)
(* (progress, quiz and level routes, models/Progress.js).                  *)
(*                                                                         *)
(* One learner (whose role is fixed at start: student or admin), one       *)
(* verifier (an admin) and one course are modelled.  Every HTTP request is *)
(* a slot of `req`; a handler is cut at the awaits that matter for the     *)
(* interleavings: the request's start (authenticate), the reads that       *)
(* decide (existence read, entitlement read) and the writes.  A request    *)
(* body is drawn where the handler first uses it.  An answered request     *)
(* shows its answer in pc = "done" until the response is sent, which is    *)
(* the next step taken.                                                    *)
(* Timestamps are abstracted: 0 is null, 1 a first Date.now(), 2 a later   *)
(* one written over it (Stamp).  Payment.notes is left out.                *)
(***************************************************************************)
EXTENDS Integers, Sequences, FiniteSets, TLC

VARIABLES
    role,       \* role of the learning user: "student" or "admin"
    course,     \* the Course document: [price, status]
    payments,   \* the Payment collection, a sequence; _id is the index
    progress,   \* the Progress collection, a sequence; _id is the index
    req,        \* the requests in flight or answered, one per slot
    seen,       \* history: per slot, the approved-ness values of the learner's
                \* payment that held since the request began (until it decides)
    met,        \* history: level numbers whose completion condition was met
    started,    \* number of requests begun, where a specification bounds it
    levels,     \* the Level documents: per level number its videoPath
    xfer,       \* the proxied transfer of a remote video
    rng,        \* a local file and the Range header it is requested with
    outbox      \* the notifications the payment saves scheduled

vars == <<role, course, payments, progress, req, seen, met, started,
          levels, xfer, rng, outbox>>
\* the state of the media delivery, which the payment and progress handlers
\* do not write
media == <<levels, xfer, rng, outbox>>

----------------------------------------------------------------------------
(* Bounds of the model *)

NumLevels == 2          \* levels of the course, numbered 1..NumLevels
NumQuestions == 1       \* questions of the quiz
QuizMaxAttempts == 2    \* quiz.maxAttempts of the modelled quiz

(* Program constants *)

VideoThreshold == 90    \* isVideoComplete = videoPercent >= 90
PassingScore == 70      \* quiz.passingScore default

Learner == "u1"
Verifier == "adm"
LearnerSlots == {"r1", "r2"}
VerifierSlot == "v"
Slots == LearnerSlots \cup {VerifierSlot}

Levels == 1..NumLevels
\* Level documents: even levels require the quiz, every level has a video.
QuizEnabled(n) == n % 2 = 0
\* The one quiz of the course belongs to level 2.
QuizLevel == CHOOSE n \in Levels : QuizEnabled(n)

Statuses == {"pending", "approved", "rejected"}
Prices == {0, 500}
\* req.body of POST /payments: transactionId, amount (hasAmount = FALSE when the
\* field is omitted), and the uploaded proof file
Forms == { [transactionId |-> "t1", hasAmount |-> FALSE, amount |-> 0, proof |-> "p1"],
           [transactionId |-> "t2", hasAmount |-> TRUE, amount |-> 750, proof |-> "p2"],
           [transactionId |-> "t2", hasAmount |-> TRUE, amount |-> 0, proof |-> "p2"] }
\* req.body of PUT /payments/:id/status with req.params.id
StatusArgs ==
    { [id |-> 1, status |-> st, reason |-> ""] :
          st \in {"approved", "pending", "refunded"} }
    \cup { [id |-> 1, status |-> "rejected", reason |-> "blurry"],
           [id |-> 2, status |-> "approved", reason |-> ""] }
Percents == {89, 90}
NoUser == "none"

NoDoc == [id |-> 0]
\* level.videoPath: a URL has a scheme and a host, a local path has neither
LocalVideo == [scheme |-> "", host |-> "", path |-> "/uploads/videos/a.mp4"]
PendingVideo == [scheme |-> "", host |-> "", path |-> "pending"]
NullVideo == [scheme |-> "", host |-> "", path |-> ""]
DriveVideo == [scheme |-> "https:", host |-> "drive.google.com", path |-> "/uc?id=f"]
OtherVideo == [scheme |-> "https:", host |-> "videos.example", path |-> "/f.mp4"]
\* no remote video is being proxied
NoTransfer == [phase |-> "idle"]
\* no local file is being served
NoRange == [pc |-> "idle"]
Idle == [op |-> "none", pc |-> "idle"]

Min(a, b) == IF a < b THEN a ELSE b
Max(a, b) == IF a > b THEN a ELSE b
\* Math.round(100 * a / b) for a >= 0, b > 0
RoundPct(a, b) == (200 * a + b) \div (2 * b)
\* Date.now() written over stamp t
Stamp(t) == IF t = 0 THEN 1 ELSE 2

----------------------------------------------------------------------------
(* Collections *)

\* Payment.findOne({userId, courseId}): the first record of the pair
FindPayment(u) ==
    IF \E i \in 1..Len(payments) : payments[i].userId = u
    THEN LET i == CHOOSE i \in 1..Len(payments) :
                     /\ payments[i].userId = u
                     /\ \A j \in 1..(i - 1) : payments[j].userId # u
         IN  payments[i]
    ELSE NoDoc

\* Payment.findById(id)
FindPaymentById(id) ==
    IF id \in 1..Len(payments) THEN payments[id] ELSE NoDoc

\* The unique index {userId, courseId} of the Payment collection
PaymentDuplicateKeyMut(u) == FALSE
PaymentDuplicateKey(u) == \E i \in 1..Len(payments) : payments[i].userId = u

\* Progress.findOne({userId, courseId})
FindProgress(u) ==
    IF \E i \in 1..Len(progress) : progress[i].userId = u
    THEN LET i == CHOOSE i \in 1..Len(progress) :
                     /\ progress[i].userId = u
                     /\ \A j \in 1..(i - 1) : progress[j].userId # u
         IN  progress[i]
    ELSE NoDoc

\* The unique index {userId, courseId} of the Progress collection
ProgressDuplicateKeyMut(u) == FALSE
ProgressDuplicateKey(u) == \E i \in 1..Len(progress) : progress[i].userId = u

\* Progress.create({userId, courseId, completedLevels: [], currentLevel: 1,
\* totalProgress: 0}) with the schema defaults
NewProgress(u) ==
    [id |-> Len(progress) + 1, userId |-> u, completedLevels |-> <<>>, currentLevel |-> 1,
     totalProgress |-> 0, courseCompleted |-> FALSE, courseCompletedAt |-> 0,
     lastAccessedAt |-> 1]

\* document.save(): only the paths whose assigned value differs from the
\* loaded one are written to the stored record; a path assigned Date.now()
\* (stamped) always differs
SaveModified(stored, loaded, assigned, stamped) ==
    [f \in DOMAIN stored |->
        IF f \in stamped \/ assigned[f] # loaded[f] THEN assigned[f]
        ELSE stored[f]]

----------------------------------------------------------------------------
(* Entitlement *)

\* Payment.findOne({userId, courseId, status: 'approved'})
ApprovedPaymentMut(u) == \E i \in 1..Len(payments) : payments[i].userId = u
ApprovedPayment(u) ==
    \E i \in 1..Len(payments) :
        payments[i].userId = u /\ payments[i].status = "approved"

\* hasAccess = admin || course.price === 0 || approvedPayment
HasAccessMut(r, price, approved) == r = "admin" \/ approved
HasAccess(r, price, approved) == r = "admin" \/ price = 0 \/ approved

\* Students do not see draft or archived courses
CourseVisible == role = "admin" \/ course.status = "published"

----------------------------------------------------------------------------
(* Requests *)

InFlight(q) == req[q].pc # "idle"
\* a response waiting to be sent is sent before anything else happens
NoDone == \A q \in Slots : req[q].pc # "done"

\* authenticate passed: the handler of `op` starts; at most limit.inflight
\* requests are handled at the same time, and limit.budget requests in all
\* (no bound when 0)
Begin(r, limit, op) ==
    /\ NoDone
    /\ ~InFlight(r)
    /\ Cardinality({q \in Slots : InFlight(q)}) < limit.inflight
    /\ limit.budget = 0 \/ started < limit.budget
    /\ started' = IF limit.budget = 0 THEN started ELSE started + 1
    /\ req' = [req EXCEPT ![r] = [op |-> op, pc |-> "start"]]

At(r, op, pc) == NoDone /\ req[r].op = op /\ req[r].pc = pc

Answer(r, arg, code, why) ==
    [op |-> req[r].op, pc |-> "done", arg |-> arg,
     resp |-> [code |-> code, why |-> why]]

\* res.json(...) is sent and the request ends
Respond(r) ==
    /\ req[r].pc = "done"
    /\ req' = [req EXCEPT ![r] = Idle]
    /\ UNCHANGED <<media, role, course, payments, progress, seen, met, started>>

\* history: the learner's payment is approved in the collection ps
IsApproved(ps) ==
    \E i \in 1..Len(ps) : ps[i].userId = Learner /\ ps[i].status = "approved"

GatedOps == {"level-complete", "quiz-submit", "stream", "get-progress", "course-view",
             "next-level"}

\* a gated request that has begun and not yet read the payment
Undecided(q) == req[q].pc = "start" /\ req[q].op \in GatedOps

\* history: a committed payment write is noted by the requests still undecided
NotePaymentWrite ==
    seen' = [q \in Slots |->
                IF Undecided(q) THEN seen[q] \cup {IsApproved(payments')}
                ELSE seen[q]]

----------------------------------------------------------------------------
(* POST /payments *)

\* only a student pays: an admin has access without payment
BeginSubmit(r, limit) ==
    /\ role = "student"
    /\ Begin(r, limit, "submit")
    /\ UNCHANGED <<media, role, course, payments, progress, seen, met>>

\* amount = body.amount given ? Number(body.amount) : course.price
SubmitAmount(f) == IF f.hasAmount THEN f.amount ELSE course.price

\* what POST /payments does with the record it read for the pair
SubmitOutcomeMut(existing) ==
    IF existing = NoDoc THEN "create"
    ELSE IF existing.status = "approved" THEN "covered" ELSE "resubmit"
SubmitOutcome(existing) ==
    IF existing # NoDoc /\ existing.status \in {"approved", "pending"} THEN "covered"
    ELSE IF existing # NoDoc /\ existing.status = "rejected" THEN "resubmit"
    ELSE "create"

\* validation and the existence read
SubmitCheck(r) ==
    /\ At(r, "submit", "start")
    /\ \E f \in Forms :
        LET existing == FindPayment(Learner)
        IN  req' = [req EXCEPT ![r] =
                IF ~CourseVisible THEN Answer(r, f, 404, "course")
                ELSE IF course.price = 0 THEN Answer(r, f, 400, "free")
                ELSE IF SubmitAmount(f) <= 0 THEN Answer(r, f, 400, "amount")
                ELSE IF SubmitOutcome(existing) = "covered"
                     THEN Answer(r, f, 400, "covered")
                ELSE [op |-> "submit", pc |-> "write", arg |-> f,
                      loc |-> existing]]
    /\ UNCHANGED <<media, role, course, payments, progress, seen, met, started>>

\* the fields a resubmission assigns to the rejected record it loaded
ResubmittedMut(loaded, f) ==
    [loaded EXCEPT !.transactionId = f.transactionId,
                   !.amount = SubmitAmount(f),
                   !.proofImage = f.proof,
                   !.status = "pending"]
Resubmitted(loaded, f) ==
    [loaded EXCEPT !.transactionId = f.transactionId,
                   !.amount = SubmitAmount(f),
                   !.proofImage = f.proof,
                   !.status = "pending",
                   !.rejectionReason = "",
                   !.verifiedBy = NoUser,
                   !.verifiedAt = 0]

\* Payment.create({userId, courseId, transactionId, amount, proofImage, status})
NewPayment(u, f) ==
    [id |-> Len(payments) + 1, userId |-> u,
     transactionId |-> f.transactionId, amount |-> SubmitAmount(f),
     proofImage |-> f.proof, status |-> "pending", verifiedBy |-> NoUser,
     verifiedAt |-> 0, rejectionReason |-> ""]

\* the notification the save hooks of the Payment schedule: pre('save') notes
\* wasNew and statusChanged (isModified('status') of a record that is not
\* new) and reads previousStatus from the collection; post('save') picks the
\* mail: "submitted" is notifyPaymentSubmitted, "status" is
\* sendPaymentStatusEmail, "none" is no mail
Notification(wasNew, statusChanged, previousStatus, status) ==
    IF wasNew THEN "submitted"
    ELSE IF statusChanged /\ previousStatus = "rejected" /\ status = "pending"
    THEN "submitted"
    ELSE IF statusChanged THEN "status"
    ELSE "none"

\* the notification of document.save() of a loaded record with the fields
\* assigned, when the collection holds stored
SaveNotification(stored, loaded, assigned) ==
    Notification(FALSE, assigned.status # loaded.status, stored.status,
                 assigned.status)

\* post('save') runs for a save that committed, not for one that failed
PostSaveMut(committed, kind) == kind
PostSave(committed, kind) == IF committed THEN kind ELSE "none"

\* setImmediate(...) of post('save'): the notification of the saved record
\* waits in the outbox; no mail, nothing scheduled
Schedule(id, kind) ==
    IF kind = "none" THEN outbox
    ELSE outbox \cup {[id |-> id, kind |-> kind, state |-> "scheduled"]}

\* existingPayment.save() of a resubmission, or Payment.create
SubmitWrite(r) ==
    /\ At(r, "submit", "write")
    /\ LET f == req[r].arg
           loaded == req[r].loc
       IN  IF SubmitOutcome(loaded) = "resubmit"
           THEN /\ payments' = [payments EXCEPT ![loaded.id] =
                        SaveModified(@, loaded, Resubmitted(loaded, f), {})]
                /\ req' = [req EXCEPT ![r] =
                        [op |-> "submit", pc |-> "done", arg |-> f,
                         resp |-> [code |-> 200, why |-> "resubmitted"],
                         id |-> loaded.id, read |-> loaded,
                         mail |-> PostSave(TRUE,
                                      SaveNotification(payments[loaded.id], loaded,
                                                       Resubmitted(loaded, f)))]]
           ELSE IF PaymentDuplicateKey(Learner)
           THEN /\ payments' = payments
                /\ req' = [req EXCEPT ![r] =
                        [op |-> "submit", pc |-> "done", arg |-> f,
                         resp |-> [code |-> 400, why |-> "conflict"],
                         id |-> 0, read |-> loaded,
                         mail |-> PostSave(FALSE,
                                      Notification(TRUE, FALSE, "", "pending"))]]
           ELSE /\ payments' = Append(payments, NewPayment(Learner, f))
                /\ req' = [req EXCEPT ![r] =
                        [op |-> "submit", pc |-> "done", arg |-> f,
                         resp |-> [code |-> 201, why |-> "created"],
                         id |-> Len(payments) + 1, read |-> loaded,
                         mail |-> PostSave(TRUE,
                                      Notification(TRUE, FALSE, "", "pending"))]]
    /\ outbox' = Schedule(req'[r].id, req'[r].mail)
    /\ NotePaymentWrite
    /\ UNCHANGED <<levels, xfer, rng, role, course, progress, met, started>>

----------------------------------------------------------------------------
(* PUT /payments/:id/status and its alias POST /payments/:id/verify *)

BeginUpdateStatus(limit) ==
    /\ Begin(VerifierSlot, limit, "status")
    /\ UNCHANGED <<media, role, course, payments, progress, seen, met>>

\* ['approved', 'rejected', 'pending'].includes(status)
ValidStatusMut(st) == TRUE
ValidStatus(st) == st \in {"approved", "rejected", "pending"}

\* the status check and Payment.findById
UpdateStatusRead ==
    /\ At(VerifierSlot, "status", "start")
    /\ \E a \in StatusArgs :
        LET payment == FindPaymentById(a.id)
        IN  req' = [req EXCEPT ![VerifierSlot] =
                IF ~ValidStatus(a.status)
                THEN Answer(VerifierSlot, a, 400, "status")
                ELSE IF payment = NoDoc
                     THEN Answer(VerifierSlot, a, 404, "payment")
                ELSE [op |-> "status", pc |-> "write", arg |-> a,
                      loc |-> payment]]
    /\ UNCHANGED <<media, role, course, payments, progress, seen, met, started>>

\* the fields updatePaymentStatus assigns to the payment it loaded
Verified(loaded, a) ==
    [loaded EXCEPT !.status = a.status,
                   !.verifiedBy = Verifier,
                   !.verifiedAt = 1,
                   !.rejectionReason =
                       IF a.status = "rejected" THEN a.reason ELSE @]

\* ensureProgress of routes/payments.js: find, else create
EnsureProgressOnApprovalMut(u) == progress
EnsureProgressOnApproval(u) ==
    IF FindProgress(u) # NoDoc THEN progress
    ELSE Append(progress, NewProgress(u))

\* ensureProgress when approving, then payment.save()
UpdateStatusWrite ==
    /\ At(VerifierSlot, "status", "write")
    /\ LET a == req[VerifierSlot].arg
           loaded == req[VerifierSlot].loc
       IN  /\ progress' = IF a.status = "approved"
                          THEN EnsureProgressOnApproval(loaded.userId)
                          ELSE progress
           /\ payments' = [payments EXCEPT ![loaded.id] =
                    SaveModified(@, loaded, Verified(loaded, a), {"verifiedAt"})]
           /\ req' = [req EXCEPT ![VerifierSlot] =
                    [op |-> "status", pc |-> "done", arg |-> a,
                     resp |-> [code |-> 200, why |-> "updated"],
                     id |-> loaded.id, read |-> loaded,
                     mail |-> PostSave(TRUE,
                                  SaveNotification(payments[loaded.id], loaded,
                                                   Verified(loaded, a)))]]
    /\ outbox' = Schedule(req'[VerifierSlot].id, req'[VerifierSlot].mail)
    /\ NotePaymentWrite
    /\ UNCHANGED <<levels, xfer, rng, role, course, met, started>>

----------------------------------------------------------------------------
(* The gated learner requests: common parts *)

BeginGated(r, limit, op) ==
    /\ r \in LearnerSlots
    /\ Begin(r, limit, op)
    /\ seen' = [seen EXCEPT ![r] = {IsApproved(payments)}]
    /\ UNCHANGED <<media, role, course, payments, progress, met>>

\* the request after its entitlement decision: 403, or on to the progress
\* part; `since` keeps the history `seen` of the request for the decision
Decided(r, arg, hasAccess) ==
    [op |-> req[r].op, pc |-> IF hasAccess THEN "apply" ELSE "done",
     arg |-> arg,
     resp |-> IF hasAccess THEN [code |-> 0, why |-> "undecided"]
                           ELSE [code |-> 403, why |-> "payment"],
     access |-> hasAccess,
     since |-> seen[r]]

\* checkCourseAccess(user, courseId): "hidden" stands for course: null
CheckCourseAccess ==
    IF ~CourseVisible THEN "hidden"
    ELSE IF HasAccess(role, course.price, ApprovedPayment(Learner)) THEN "yes"
    ELSE "no"

\* the lazy creation of the learner routes: Progress.findOne, else
\* Progress.create; the collection afterwards
EnsureProgress(u) ==
    IF FindProgress(u) # NoDoc THEN progress
    ELSE Append(progress, NewProgress(u))

\* the learner's document after EnsureProgress
EnsuredDoc(u) ==
    IF FindProgress(u) # NoDoc THEN FindProgress(u) ELSE NewProgress(u)

\* progress.currentLevel || 1
OrOne(n) == IF n = 0 THEN 1 ELSE n

\* completedLevels.findIndex(l => l.levelId === levelId), 0 when absent
LevelIndex(doc, n) ==
    IF \E i \in 1..Len(doc.completedLevels) : doc.completedLevels[i].levelId = n
    THEN CHOOSE i \in 1..Len(doc.completedLevels) :
            /\ doc.completedLevels[i].levelId = n
            /\ \A j \in 1..(i - 1) : doc.completedLevels[j].levelId # n
    ELSE 0

\* the defaults of levelProgressSchema
NewEntry(n) ==
    [levelId |-> n, completed |-> FALSE, completedAt |-> 0, quizScore |-> 0,
     quizPassed |-> FALSE, quizAttempts |-> 0, videoWatchedPercent |-> 0]

\* progress.calculateProgress(totalLevels)
CalculateProgress(doc, totalLevels) ==
    IF totalLevels = 0 THEN doc
    ELSE LET completedCount ==
                 Cardinality({i \in 1..Len(doc.completedLevels) :
                                 doc.completedLevels[i].completed})
         IN  [doc EXCEPT !.totalProgress = RoundPct(completedCount, totalLevels)]

\* if (progress.currentLevel > totalLevels) { courseCompleted ... }
MarkCompletion(doc, totalLevels) ==
    IF doc.currentLevel > totalLevels
    THEN [doc EXCEPT !.courseCompleted = TRUE,
                     !.courseCompletedAt = Stamp(@),
                     !.totalProgress = 100]
    ELSE doc

\* the entry written at levelIndex, or pushed
PutEntry(doc, idx, entry) ==
    IF idx > 0 THEN [doc EXCEPT !.completedLevels[idx] = entry]
    ELSE [doc EXCEPT !.completedLevels = Append(@, entry)]

\* progress.save() of the document with _id = doc.id
SaveProgress(coll, doc) == [coll EXCEPT ![doc.id] = doc]

----------------------------------------------------------------------------
(* POST /progress/level-complete *)

\* req.body: levelId, videoWatchedPercent, quizPassed (quizScore omitted);
\* a client reports quizPassed = true only for a level with a quiz
LevelCompleteArgs ==
    { a \in [level : Levels, percent : Percents, quizPassed : BOOLEAN] :
          a.quizPassed => QuizEnabled(a.level) }

BeginLevelComplete(r, limit) == BeginGated(r, limit, "level-complete")

\* Level.findById and checkCourseAccess
LevelCompleteAccess(r) ==
    /\ At(r, "level-complete", "start")
    /\ req' = [req EXCEPT ![r] =
            IF CheckCourseAccess = "hidden" THEN Answer(r, NoDoc, 404, "course")
            ELSE Decided(r, NoDoc, CheckCourseAccess = "yes")]
    /\ seen' = [seen EXCEPT ![r] = {}]
    /\ UNCHANGED <<media, role, course, payments, progress, met, started>>

\* if (level.levelNumber > (progress.currentLevel || 1)) return 403
SequenceViolationMut(levelNumber, doc) == FALSE
SequenceViolationLate(levelNumber, doc) == levelNumber > OrOne(doc.currentLevel) + 1
SequenceViolation(levelNumber, doc) == levelNumber > OrOne(doc.currentLevel)

\* Math.min(100, Number(videoWatchedPercent) || 0)
VideoPercent(p) == Min(100, p)

\* the currentLevel after a level-complete of level n
AdvanceOnVideoMut(currentLevel, n, isVideoComplete) ==
    IF ~QuizEnabled(n) /\ isVideoComplete THEN n + 1 ELSE currentLevel
AdvanceOnVideo(currentLevel, n, isVideoComplete) ==
    IF ~QuizEnabled(n) /\ isVideoComplete
    THEN Max(OrOne(currentLevel), n + 1)
    ELSE currentLevel

\* the progress document after the level-complete mutation of lines 116-156
LevelCompleted(doc, a) ==
    LET n == a.level
        idx == LevelIndex(doc, n)
        videoPercent == VideoPercent(a.percent)
        isVideoComplete == videoPercent >= VideoThreshold
        levelCompleted == IF QuizEnabled(n) THEN a.quizPassed ELSE isVideoComplete
        base == IF idx > 0 THEN doc.completedLevels[idx] ELSE NewEntry(n)
        entry == [base EXCEPT !.completed = levelCompleted,
                              !.completedAt = IF levelCompleted THEN 1 ELSE 0,
                              !.videoWatchedPercent = videoPercent,
                              !.quizScore = 0,
                              !.quizPassed = a.quizPassed]
        d1 == PutEntry(doc, idx, entry)
        d2 == [d1 EXCEPT !.currentLevel = AdvanceOnVideo(@, n, isVideoComplete)]
        d3 == MarkCompletion(CalculateProgress(d2, NumLevels), NumLevels)
    IN  [d3 EXCEPT !.lastAccessedAt = Stamp(@)]

\* history: the completion condition of a level without quiz
MetByVideo(n, percent) == ~QuizEnabled(n) /\ percent >= 90

\* ensureProgress, the sequence check, the mutation and progress.save()
LevelCompleteApply(r) ==
    /\ At(r, "level-complete", "apply")
    /\ \E a \in LevelCompleteArgs :
        LET ensured == EnsureProgress(Learner)
            doc == EnsuredDoc(Learner)
        IN  IF SequenceViolation(a.level, doc)
            THEN /\ progress' = ensured
                 /\ req' = [req EXCEPT ![r] = Answer(r, a, 403, "sequence")]
                 /\ met' = met
            ELSE /\ progress' = SaveProgress(ensured, LevelCompleted(doc, a))
                 /\ req' = [req EXCEPT ![r] = Answer(r, a, 200, "saved")]
                 /\ met' = IF MetByVideo(a.level, Min(100, a.percent))
                           THEN met \cup {a.level} ELSE met
    /\ UNCHANGED <<media, role, course, payments, seen, started>>

----------------------------------------------------------------------------
(* POST /quizzes/:id/submit *)

Questions == 1..NumQuestions
\* question.correctAnswer, an option index
CorrectAnswer(q) == q % 2
\* req.body.answers: per question the selected option index, -1 when the
\* question is unanswered or the selection is no valid index
AnswerSheets == [Questions -> {-1, 0, 1}]

\* history: quizAttempts stored for the quiz level
StoredAttempts ==
    LET doc == FindProgress(Learner)
    IN  IF doc = NoDoc \/ LevelIndex(doc, QuizLevel) = 0 THEN 0
        ELSE doc.completedLevels[LevelIndex(doc, QuizLevel)].quizAttempts

\* an admin is exempt from maxAttempts: the model stops an admin's
\* submissions one past the limit
BeginQuizSubmit(r, limit) ==
    /\ StoredAttempts <= QuizMaxAttempts
    /\ BeginGated(r, limit, "quiz-submit")

\* the quiz, level and course lookups and the approved-payment read
QuizSubmitAccess(r) ==
    /\ At(r, "quiz-submit", "start")
    /\ req' = [req EXCEPT ![r] =
            IF ~CourseVisible THEN Answer(r, NoDoc, 404, "course")
            ELSE Decided(r, NoDoc, role = "admin" \/ course.price = 0
                                      \/ ApprovedPayment(Learner))]
    /\ seen' = [seen EXCEPT ![r] = {}]
    /\ UNCHANGED <<media, role, course, payments, progress, met, started>>

\* correctCount: selections equal to the stored correct index
CorrectCount(sheet) ==
    Cardinality({q \in Questions : sheet[q] >= 0 /\ sheet[q] = CorrectAnswer(q)})

\* Math.round((correctCount / totalQuestions) * 100)
QuizScore(sheet) == RoundPct(CorrectCount(sheet), NumQuestions)

\* attemptsUsedBefore >= quiz.maxAttempts, admins exempt
AttemptsExhaustedMut(attemptsUsedBefore) ==
    role # "admin" /\ attemptsUsedBefore > QuizMaxAttempts
AttemptsExhaustedEarly(attemptsUsedBefore) ==
    role # "admin" /\ attemptsUsedBefore + 1 >= QuizMaxAttempts
AttemptsExhausted(attemptsUsedBefore) ==
    role # "admin" /\ attemptsUsedBefore >= QuizMaxAttempts

\* completed = passed && watchedEnough
QuizCompletedMut(passed, watchedEnough) == passed
QuizCompleted(passed, watchedEnough) == passed /\ watchedEnough

\* the progress document after the quiz mutation of lines 268-305
QuizRecorded(doc, sheet) ==
    LET idx == LevelIndex(doc, QuizLevel)
        base == IF idx > 0 THEN doc.completedLevels[idx] ELSE NewEntry(QuizLevel)
        score == QuizScore(sheet)
        passed == score >= PassingScore
        watchedEnough == idx > 0 /\ base.videoWatchedPercent >= VideoThreshold
        completed == QuizCompleted(passed, watchedEnough)
        entry == [base EXCEPT !.completed = completed,
                              !.completedAt = IF completed THEN 1 ELSE @,
                              !.quizScore = score,
                              !.quizPassed = passed,
                              !.quizAttempts = @ + 1]
        d1 == PutEntry(doc, idx, entry)
        d2 == IF completed
              THEN [d1 EXCEPT !.currentLevel = Max(OrOne(@), QuizLevel + 1)]
              ELSE d1
    IN  MarkCompletion(CalculateProgress(d2, NumLevels), NumLevels)

\* history: the completion condition of a quiz level is met by this submission
MetByQuiz(doc, sheet) ==
    /\ 100 * CorrectCount(sheet) >= 70 * NumQuestions
    /\ LevelIndex(doc, QuizLevel) > 0
    /\ doc.completedLevels[LevelIndex(doc, QuizLevel)].videoWatchedPercent >= 90

\* find or create the progress, the attempts check, scoring and progress.save()
QuizSubmitApply(r) ==
    /\ At(r, "quiz-submit", "apply")
    /\ \E sheet \in AnswerSheets :
        LET ensured == EnsureProgress(Learner)
            doc == EnsuredDoc(Learner)
            idx == LevelIndex(doc, QuizLevel)
            attemptsUsedBefore ==
                IF idx > 0 THEN doc.completedLevels[idx].quizAttempts ELSE 0
        IN  IF AttemptsExhausted(attemptsUsedBefore)
            THEN /\ progress' = ensured
                 /\ req' = [req EXCEPT ![r] = Answer(r, sheet, 400, "attempts")]
                 /\ met' = met
            ELSE /\ progress' = SaveProgress(ensured, QuizRecorded(doc, sheet))
                 /\ req' = [req EXCEPT ![r] =
                         [op |-> "quiz-submit", pc |-> "done", arg |-> sheet,
                          resp |-> [code |-> 200, why |-> "scored"],
                          score |-> QuizScore(sheet),
                          passed |-> QuizScore(sheet) >= PassingScore]]
                 /\ met' = IF MetByQuiz(doc, sheet)
                           THEN met \cup {QuizLevel} ELSE met
    /\ UNCHANGED <<media, role, course, payments, seen, started>>

----------------------------------------------------------------------------
(* GET /levels/:id/stream *)

\* req.params.id: a level of the course, or an id no level has
StreamArgs == { [level |-> n] : n \in 1..(NumLevels + 1) }

BeginStream(r, limit) == BeginGated(r, limit, "stream")

\* !level || !level.videoPath || level.videoPath === 'pending'
NoVideo(n) ==
    \/ n \notin Levels
    \/ (levels[n].scheme = "" /\ levels[n].path \in {"", "pending"})

\* the checks of the stream handler before the progress part, in their
\* order: "video" and "course" answer 404, "payment" answers 403
StreamGateMut(n) ==
    IF NoVideo(n) THEN "video"
    ELSE IF ~HasAccess(role, course.price, ApprovedPayment(Learner)) THEN "payment"
    ELSE IF ~CourseVisible THEN "course"
    ELSE "pass"
StreamGate(n) ==
    IF NoVideo(n) THEN "video"
    ELSE IF ~CourseVisible THEN "course"
    ELSE IF ~HasAccess(role, course.price, ApprovedPayment(Learner)) THEN "payment"
    ELSE "pass"

\* the level and course lookups and the approved-payment read
StreamAccess(r) ==
    /\ At(r, "stream", "start")
    /\ \E a \in StreamArgs :
        req' = [req EXCEPT ![r] =
            IF StreamGate(a.level) \in {"video", "course"}
            THEN Answer(r, a, 404, StreamGate(a.level))
            ELSE Decided(r, a, StreamGate(a.level) = "pass")]
    /\ seen' = [seen EXCEPT ![r] = {}]
    /\ UNCHANGED <<media, role, course, payments, progress, met, started>>

\* isRemoteUrl(value): /^https?:\/\//i
IsRemoteUrl(v) == v.scheme \in {"http:", "https:"}

\* isAllowedExternalVideoHost(hostname), no extra hosts configured
IsAllowedExternalVideoHost(host) ==
    host \in {"drive.google.com", "docs.google.com",
              "drive.usercontent.google.com", "res.cloudinary.com",
              "lh3.googleusercontent.com"}

\* the file id in the path or query of a Drive URL: /file/d/<id>/, /d/<id>,
\* ?id=<id>; "" when there is none
DriveIdIn(path) ==
    IF path \in {"/file/d/f/view", "/uc?id=f", "/uc?export=download&id=f"} THEN "f"
    ELSE ""

\* new URL(value) succeeds: the value has a scheme
ParsesAsUrl(v) == v.scheme # ""

\* extractGoogleDriveFileId(rawValue): a bare file id, or the id in a URL of a
\* Drive host; "" stands for null
ExtractGoogleDriveFileId(v) ==
    IF ~ParsesAsUrl(v) THEN (IF v.path = "f" THEN "f" ELSE "")
    ELSE IF v.host \notin {"drive.google.com", "docs.google.com",
                           "drive.usercontent.google.com"} THEN ""
    ELSE DriveIdIn(v.path)

\* normalizeExternalVideoUrl(rawUrl): a Drive reference becomes the download
\* URL of its file, anything else is kept
NormalizeExternalVideoUrl(v) ==
    IF ExtractGoogleDriveFileId(v) # ""
    THEN [scheme |-> "https:", host |-> "drive.google.com",
          path |-> "/uc?export=download&id=f"]
    ELSE v

\* after the checks: a remote reference is proxied when its host is allowed,
\* a local file is served
Deliver(r, a) ==
    LET v == NormalizeExternalVideoUrl(levels[a.level])
    IN  IF IsRemoteUrl(levels[a.level])
        THEN IF IsAllowedExternalVideoHost(v.host)
             THEN Answer(r, a, 200, "proxied")
             ELSE Answer(r, a, 400, "host")
        ELSE Answer(r, a, 200, "served")

\* students: find or create the progress, the sequence check and the
\* lastAccessedAt save; then the video is served
StreamApply(r) ==
    /\ At(r, "stream", "apply")
    /\ LET a == req[r].arg
           ensured == EnsureProgress(Learner)
           doc == EnsuredDoc(Learner)
       IN  IF role = "admin"
           THEN /\ progress' = progress
                /\ req' = [req EXCEPT ![r] = Deliver(r, a)]
           ELSE IF a.level > OrOne(doc.currentLevel)
           THEN /\ progress' = ensured
                /\ req' = [req EXCEPT ![r] = Answer(r, a, 403, "sequence")]
           ELSE /\ progress' = SaveProgress(ensured,
                                   [doc EXCEPT !.lastAccessedAt = Stamp(@)])
                /\ req' = [req EXCEPT ![r] = Deliver(r, a)]
    /\ UNCHANGED <<media, role, course, payments, seen, met, started>>

----------------------------------------------------------------------------
(* The admin's writes of a level's video reference *)

\* values an admin may send as a link: Drive share links, a bare Drive file
\* id, a direct link on an allowed host, links on other hosts, a link with
\* another scheme, text that is no URL, and nothing
CloudLink == [scheme |-> "https:", host |-> "res.cloudinary.com", path |-> "/v.mp4"]
VideoLinks ==
    { [scheme |-> "https:", host |-> "drive.google.com", path |-> "/file/d/f/view"],
      [scheme |-> "https:", host |-> "docs.google.com", path |-> "/uc?id=f"],
      [scheme |-> "", host |-> "", path |-> "f"],
      CloudLink,
      OtherVideo,
      [scheme |-> "http:", host |-> "videos.example", path |-> "/f.mp4"],
      [scheme |-> "ftp:", host |-> "res.cloudinary.com", path |-> "/v.mp4"],
      [scheme |-> "", host |-> "", path |-> "see the drive"],
      NullVideo }

\* req.params.id and req.body.url of PUT /levels/:id/video-link
VideoLinkArgs == [level : 1..(NumLevels + 1), url : VideoLinks]

\* req.params.id and req.body of PUT /levels/:id: with or without a videoPath
LevelUpdateArgs ==
    [level : 1..(NumLevels + 1), hasVideoPath : {TRUE}, videoPath : VideoLinks]
    \cup [level : 1..(NumLevels + 1), hasVideoPath : {FALSE}, videoPath : {NullVideo}]

\* req.params.id and the path persistUploadedFile returns: a local path or
\* the URL of the cloud storage
UploadArgs == [level : 1..(NumLevels + 1), stored : {LocalVideo, CloudLink}]

\* requireAdmin passed: the handler of an admin's level route starts
BeginLevelWrite(limit, op) ==
    /\ Begin(VerifierSlot, limit, op)
    /\ UNCHANGED <<media, role, course, payments, progress, seen, met>>

\* the checks of the link before the level is read, in their order; "" when
\* the link passes
VideoLinkRefusal(url) ==
    LET normalized == NormalizeExternalVideoUrl(url)
    IN  IF url = NullVideo THEN "required"
        ELSE IF ~ParsesAsUrl(normalized) THEN "invalid"
        ELSE IF ~IsRemoteUrl(normalized) THEN "protocol"
        ELSE IF ~IsAllowedExternalVideoHost(normalized.host) THEN "host"
        ELSE ""

\* PUT /levels/:id/video-link
VideoLink ==
    /\ At(VerifierSlot, "video-link", "start")
    /\ \E a \in VideoLinkArgs :
        IF VideoLinkRefusal(a.url) # ""
        THEN /\ levels' = levels
             /\ req' = [req EXCEPT ![VerifierSlot] =
                            Answer(VerifierSlot, a, 400, VideoLinkRefusal(a.url))]
        ELSE IF a.level \notin Levels
        THEN /\ levels' = levels
             /\ req' = [req EXCEPT ![VerifierSlot] =
                            Answer(VerifierSlot, a, 404, "level")]
        ELSE /\ levels' = [levels EXCEPT
                              ![a.level] = NormalizeExternalVideoUrl(a.url)]
             /\ req' = [req EXCEPT ![VerifierSlot] =
                            Answer(VerifierSlot, a, 200, "level")]
    /\ UNCHANGED <<role, course, payments, progress, seen, met, started, xfer, rng, outbox>>

\* PUT /levels/:id: Level.findByIdAndUpdate(req.params.id, req.body)
LevelUpdate ==
    /\ At(VerifierSlot, "level-update", "start")
    /\ \E a \in LevelUpdateArgs :
        IF a.level \notin Levels
        THEN /\ levels' = levels
             /\ req' = [req EXCEPT ![VerifierSlot] =
                            Answer(VerifierSlot, a, 404, "level")]
        ELSE /\ levels' = IF a.hasVideoPath
                          THEN [levels EXCEPT ![a.level] = a.videoPath]
                          ELSE levels
             /\ req' = [req EXCEPT ![VerifierSlot] =
                            Answer(VerifierSlot, a, 200, "level")]
    /\ UNCHANGED <<role, course, payments, progress, seen, met, started, xfer, rng, outbox>>

\* POST /levels/:id/video with a file
Upload ==
    /\ At(VerifierSlot, "upload", "start")
    /\ \E a \in UploadArgs :
        IF a.level \notin Levels
        THEN /\ levels' = levels
             /\ req' = [req EXCEPT ![VerifierSlot] =
                            Answer(VerifierSlot, a, 404, "level")]
        ELSE /\ levels' = [levels EXCEPT ![a.level] = a.stored]
             /\ req' = [req EXCEPT ![VerifierSlot] =
                            Answer(VerifierSlot, a, 200, "level")]
    /\ UNCHANGED <<role, course, payments, progress, seen, met, started, xfer, rng, outbox>>

----------------------------------------------------------------------------
(* Level metadata sent to a caller *)

\* level.toObject(): the fields of a Level document that matter here
LevelObject(n) ==
    [levelNumber |-> n, quizEnabled |-> QuizEnabled(n), videoPath |-> levels[n]]

\* delete obj[field]
DeleteField(obj, field) == [f \in DOMAIN obj \ {field} |-> obj[f]]

\* { ...obj, [field]: value }
SpreadField(obj, field, value) ==
    [f \in DOMAIN obj \cup {field} |-> IF f = field THEN value ELSE obj[f]]

\* Boolean(obj.videoPath && obj.videoPath !== 'pending')
HasVideo(n) == ~(levels[n].scheme = "" /\ levels[n].path \in {"", "pending"})

\* the object the levels routes send for level n: videoPath is deleted for a
\* caller who is not an admin
StrippedLevel(n) ==
    SpreadField(IF role # "admin" THEN DeleteField(LevelObject(n), "videoPath")
                ELSE LevelObject(n),
                "hasVideo", HasVideo(n))

\* the object GET /courses/:id builds for level n from named fields
SafeLevel(n, unlockedLevelNumber) ==
    [levelNumber |-> n, quizEnabled |-> QuizEnabled(n),
     locked |-> n > unlockedLevelNumber]

\* an answer that carries Level objects: body is the sequence of the Level
\* objects of the JSON sent, in the order they appear in it
AnswerLevels(r, arg, code, why, body) ==
    [op |-> req[r].op, pc |-> "done", arg |-> arg,
     resp |-> [code |-> code, why |-> why], body |-> body]

\* GET /levels/course/:courseId
LevelsList(r) ==
    /\ At(r, "levels-list", "start")
    /\ LET payment == FindPayment(Learner)
           found == FindProgress(Learner)
           hasAccess == role = "admin" \/ course.price = 0
                          \/ (payment # NoDoc /\ payment.status = "approved")
           unlockedLevelNumber ==
               IF role = "admin" THEN NumLevels + 1
               ELSE IF hasAccess
                    THEN (IF found = NoDoc THEN 1 ELSE OrOne(found.currentLevel))
                    ELSE 0
       IN  req' = [req EXCEPT ![r] =
               IF ~CourseVisible THEN AnswerLevels(r, NoDoc, 404, "course", <<>>)
               ELSE AnswerLevels(r, NoDoc, 200, "levels",
                        [n \in Levels |->
                            SpreadField(StrippedLevel(n), "locked",
                                        n > unlockedLevelNumber)])]
    /\ seen' = [seen EXCEPT ![r] = {}]
    /\ UNCHANGED <<media, role, course, payments, progress, met, started>>

\* GET /levels/:id
LevelGet(r) ==
    /\ At(r, "level-get", "start")
    /\ \E a \in StreamArgs :
        req' = [req EXCEPT ![r] =
            IF a.level \notin Levels THEN AnswerLevels(r, a, 404, "level", <<>>)
            ELSE IF ~CourseVisible THEN AnswerLevels(r, a, 404, "course", <<>>)
            ELSE AnswerLevels(r, a, 200, "level", <<StrippedLevel(a.level)>>)]
    /\ seen' = [seen EXCEPT ![r] = {}]
    /\ UNCHANGED <<media, role, course, payments, progress, met, started>>

\* GET /progress/course/:courseId/next-level
\* checkCourseAccess
NextLevelAccess(r) ==
    /\ At(r, "next-level", "start")
    /\ req' = [req EXCEPT ![r] =
            IF CheckCourseAccess = "hidden" THEN Answer(r, NoDoc, 404, "course")
            ELSE Decided(r, NoDoc, CheckCourseAccess = "yes")]
    /\ seen' = [seen EXCEPT ![r] = {}]
    /\ UNCHANGED <<media, role, course, payments, progress, met, started>>

\* ensureProgress, Level.findOne({levelNumber: currentLevel || 1}) and
\* res.json({ nextLevel }) of the document found
NextLevelApply(r) ==
    /\ At(r, "next-level", "apply")
    /\ progress' = EnsureProgress(Learner)
    /\ LET nextLevelNumber == OrOne(EnsuredDoc(Learner).currentLevel)
       IN  req' = [req EXCEPT ![r] =
               IF nextLevelNumber \notin Levels
               THEN AnswerLevels(r, NoDoc, 404, "level", <<>>)
               ELSE AnswerLevels(r, NoDoc, 200, "next-level",
                                 <<LevelObject(nextLevelNumber)>>)]
    /\ UNCHANGED <<media, role, course, payments, seen, met, started>>

\* .populate('completedLevels.levelId'): each entry's levelId is replaced by
\* the Level document it refers to; the documents of a populated Progress
Populated(doc) ==
    LET known == SelectSeq(doc.completedLevels, LAMBDA e : e.levelId \in Levels)
    IN  [i \in 1..Len(known) |-> LevelObject(known[i].levelId)]

----------------------------------------------------------------------------
(* GET /progress/course/:courseId *)

BeginGetProgress(r, limit) == BeginGated(r, limit, "get-progress")

\* checkCourseAccess
GetProgressAccess(r) ==
    /\ At(r, "get-progress", "start")
    /\ req' = [req EXCEPT ![r] =
            IF CheckCourseAccess = "hidden" THEN Answer(r, NoDoc, 404, "course")
            ELSE Decided(r, NoDoc, CheckCourseAccess = "yes")]
    /\ seen' = [seen EXCEPT ![r] = {}]
    /\ UNCHANGED <<media, role, course, payments, progress, met, started>>

\* ensureProgress and the answer
GetProgressApply(r) ==
    /\ At(r, "get-progress", "apply")
    /\ progress' = EnsureProgress(Learner)
    /\ req' = [req EXCEPT ![r] =
            AnswerLevels(r, NoDoc, 200, "progress", Populated(EnsuredDoc(Learner)))]
    /\ UNCHANGED <<media, role, course, payments, seen, met, started>>

----------------------------------------------------------------------------
(* GET /courses/:id *)

\* GET /payments/course/:courseId/status: the course, the caller's payment and
\* progress, and the answer {status, hasAccess, progress, currentLevel}
PaymentStatus(r) ==
    /\ At(r, "payment-status", "start")
    /\ LET payment == FindPayment(Learner)
           found == FindProgress(Learner)
           isFree == course.price = 0
       IN  req' = [req EXCEPT ![r] =
               IF ~CourseVisible THEN Answer(r, NoDoc, 404, "course")
               ELSE [op |-> "payment-status", pc |-> "done", arg |-> NoDoc,
                     resp |-> [code |-> 200, why |-> "status"],
                     status |-> IF payment # NoDoc THEN payment.status
                                ELSE IF isFree THEN "free" ELSE "unpaid",
                     hasAccess |-> isFree \/ (payment # NoDoc /\ payment.status = "approved"),
                     progress |-> IF found # NoDoc THEN found.totalProgress ELSE 0,
                     currentLevel |-> IF found # NoDoc THEN found.currentLevel ELSE 0]]
    /\ seen' = [seen EXCEPT ![r] = {}]
    /\ UNCHANGED <<media, role, course, payments, progress, met, started>>

BeginCourseView(r, limit) == BeginGated(r, limit, "course-view")

\* res.json({ course: courseResponse }): hasAccess and the levels with their
\* locks, from unlockedLevelNumber
CourseAnswerMut(hasAccess, ensuredProgress) ==
    LET unlockedLevelNumber ==
            IF role = "admin" THEN NumLevels + 1
            ELSE IF hasAccess
                 THEN (IF ensuredProgress = NoDoc THEN 1
                       ELSE OrOne(ensuredProgress.currentLevel) + 1)
                 ELSE 0
    IN  [op |-> "course-view", pc |-> "done", arg |-> NoDoc,
         resp |-> [code |-> 200, why |-> "course"],
         hasAccess |-> hasAccess,
         locked |-> {n \in Levels : n > unlockedLevelNumber},
         body |-> [n \in Levels |-> SafeLevel(n, unlockedLevelNumber)]]
CourseAnswer(hasAccess, ensuredProgress) ==
    LET unlockedLevelNumber ==
            IF role = "admin" THEN NumLevels + 1
            ELSE IF hasAccess
                 THEN (IF ensuredProgress = NoDoc THEN 1
                       ELSE OrOne(ensuredProgress.currentLevel))
                 ELSE 0
    IN  [op |-> "course-view", pc |-> "done", arg |-> NoDoc,
         resp |-> [code |-> 200, why |-> "course"],
         hasAccess |-> hasAccess,
         locked |-> {n \in Levels : n > unlockedLevelNumber},
         body |-> [n \in Levels |-> SafeLevel(n, unlockedLevelNumber)]]

\* the reads, the lazy creation for a student with access, the listing
CourseView(r) ==
    /\ At(r, "course-view", "start")
    /\ LET payment == FindPayment(Learner)
           found == FindProgress(Learner)
           hasAccess == role = "admin" \/ course.price = 0
                          \/ (payment # NoDoc /\ payment.status = "approved")
           create == hasAccess /\ found = NoDoc /\ role # "admin"
           ensuredProgress == IF create THEN NewProgress(Learner) ELSE found
       IN  IF ~CourseVisible
           THEN /\ progress' = progress
                /\ req' = [req EXCEPT ![r] = Answer(r, NoDoc, 404, "course")]
           ELSE /\ progress' = IF create THEN Append(progress, NewProgress(Learner))
                               ELSE progress
                /\ req' = [req EXCEPT ![r] =
                              CourseAnswer(hasAccess, ensuredProgress)]
    /\ seen' = [seen EXCEPT ![r] = {}]
    /\ UNCHANGED <<media, role, course, payments, met, started>>

----------------------------------------------------------------------------
(* The system *)

Init ==
    /\ role \in {"student", "admin"}
    /\ course \in [price : Prices, status : {"published", "draft"}]
    /\ payments = <<>>
    /\ progress = <<>>
    /\ req = [q \in Slots |-> Idle]
    /\ seen = [q \in Slots |-> {}]
    /\ met = {}
    /\ started = 0
    /\ levels = [n \in Levels |-> LocalVideo]
    /\ xfer = NoTransfer
    /\ rng = NoRange
    /\ outbox = {}

\* the requests of the learner's slot r
LearnerStep(r, limit) ==
    \/ BeginSubmit(r, limit)
    \/ SubmitCheck(r)
    \/ SubmitWrite(r)
    \/ BeginLevelComplete(r, limit)
    \/ LevelCompleteAccess(r)
    \/ LevelCompleteApply(r)
    \/ BeginQuizSubmit(r, limit)
    \/ QuizSubmitAccess(r)
    \/ QuizSubmitApply(r)
    \/ BeginStream(r, limit)
    \/ StreamAccess(r)
    \/ StreamApply(r)
    \/ BeginGetProgress(r, limit)
    \/ GetProgressAccess(r)
    \/ GetProgressApply(r)
    \/ BeginCourseView(r, limit)
    \/ CourseView(r)

\* the requests of the verifier
VerifierStep(limit) ==
    \/ BeginUpdateStatus(limit)
    \/ UpdateStatusRead
    \/ UpdateStatusWrite

MaxInFlight == 2
MaxRequests == 4

\* requests interleave at their awaits: at most MaxInFlight at a time and
\* MaxRequests in a behaviour
Concurrent == [inflight |-> MaxInFlight, budget |-> MaxRequests]
Next ==
    \/ \E r \in LearnerSlots : LearnerStep(r, Concurrent)
    \/ VerifierStep(Concurrent)
    \/ \E r \in Slots : Respond(r)
Spec == Init /\ [][Next]_vars

\* every request runs to its answer before the next begins; any number of
\* requests
Serial == [inflight |-> 1, budget |-> 0]
NextSeq ==
    \/ \E r \in LearnerSlots : LearnerStep(r, Serial)
    \/ VerifierStep(Serial)
    \/ \E r \in Slots : Respond(r)
SpecSeq == Init /\ [][NextSeq]_vars

----------------------------------------------------------------------------
(* The stream endpoint over the states the data can be in *)

\* a payment of the learner as a verifier left it
PaymentIn(st) ==
    [id |-> 1, userId |-> Learner, transactionId |-> "t1", amount |-> 500,
     proofImage |-> "p1", status |-> st,
     verifiedBy |-> IF st = "pending" THEN NoUser ELSE Verifier,
     verifiedAt |-> IF st = "pending" THEN 0 ELSE 1,
     rejectionReason |-> IF st = "rejected" THEN "blurry" ELSE ""]

\* the entry of a level the learner has completed
CompletedEntry(n) ==
    [levelId |-> n, completed |-> TRUE, completedAt |-> 1,
     quizScore |-> IF QuizEnabled(n) THEN 100 ELSE 0,
     quizPassed |-> QuizEnabled(n),
     quizAttempts |-> IF QuizEnabled(n) THEN 1 ELSE 0,
     videoWatchedPercent |-> 100]

\* the Progress document of a learner who completed the levels below c
ProgressAt(c) ==
    [id |-> 1, userId |-> Learner,
     completedLevels |-> [n \in 1..(c - 1) |-> CompletedEntry(n)],
     currentLevel |-> c,
     totalProgress |-> IF c > NumLevels THEN 100 ELSE RoundPct(c - 1, NumLevels),
     courseCompleted |-> c > NumLevels,
     courseCompletedAt |-> IF c > NumLevels THEN 1 ELSE 0,
     lastAccessedAt |-> 1]


\* a course an admin may have unpublished, repriced or re-linked after the
\* learner paid and progressed
InitStream ==
    /\ role \in {"student", "admin"}
    /\ course \in [price : Prices, status : {"published", "draft", "archived"}]
    /\ payments \in {<<>>} \cup {<<PaymentIn(st)>> : st \in Statuses}
    /\ progress \in {<<>>} \cup {<<ProgressAt(c)>> : c \in 1..(NumLevels + 1)}
    /\ req = [q \in Slots |-> Idle]
    /\ seen = [q \in Slots |-> {}]
    /\ met = {}
    /\ started = 0
    /\ levels \in [Levels -> {LocalVideo, PendingVideo, NullVideo, DriveVideo, OtherVideo}]
    /\ xfer = NoTransfer
    /\ rng = NoRange
    /\ outbox = {}

NextStream ==
    \/ BeginStream("r1", Serial)
    \/ StreamAccess("r1")
    \/ StreamApply("r1")
    \/ Respond("r1")
SpecStream == InitStream /\ [][NextStream]_vars

----------------------------------------------------------------------------
(* The admin's writes and the stream endpoint *)

\* levels as POST /levels creates them (videoPath: null), a learner who may
\* stream
InitLevels ==
    /\ role \in {"student", "admin"}
    /\ course \in [price : Prices, status : {"published"}]
    /\ payments \in {<<>>, <<PaymentIn("approved")>>}
    /\ progress \in {<<>>} \cup {<<ProgressAt(c)>> : c \in 1..(NumLevels + 1)}
    /\ req = [q \in Slots |-> Idle]
    /\ seen = [q \in Slots |-> {}]
    /\ met = {}
    /\ started = 0
    /\ levels = [n \in Levels |-> NullVideo]
    /\ xfer = NoTransfer
    /\ rng = NoRange
    /\ outbox = {}

NextLevels ==
    \/ BeginLevelWrite(Serial, "video-link")
    \/ VideoLink
    \/ BeginLevelWrite(Serial, "level-update")
    \/ LevelUpdate
    \/ BeginLevelWrite(Serial, "upload")
    \/ Upload
    \/ BeginStream("r1", Serial)
    \/ StreamAccess("r1")
    \/ StreamApply("r1")
    \/ \E r \in {"r1", VerifierSlot} : Respond(r)
SpecLevels == InitLevels /\ [][NextLevels]_vars

----------------------------------------------------------------------------
(* The metadata endpoints over the states the data can be in *)

NextMeta ==
    \/ BeginGated("r1", Serial, "levels-list")
    \/ LevelsList("r1")
    \/ BeginGated("r1", Serial, "level-get")
    \/ LevelGet("r1")
    \/ BeginGated("r1", Serial, "next-level")
    \/ NextLevelAccess("r1")
    \/ NextLevelApply("r1")
    \/ BeginGetProgress("r1", Serial)
    \/ GetProgressAccess("r1")
    \/ GetProgressApply("r1")
    \/ BeginCourseView("r1", Serial)
    \/ CourseView("r1")
    \/ BeginGated("r1", Serial, "payment-status")
    \/ PaymentStatus("r1")
    \/ Respond("r1")
SpecMeta == InitStream /\ [][NextMeta]_vars

----------------------------------------------------------------------------
(* The stream endpoint: a local file, with or without a Range header *)

MaxFileSize == 3        \* stat.size is 0..MaxFileSize
MaxHeaderLen == 5       \* tokens of a Range header

\* a Range header is a string of these tokens; "x" is any other character;
\* the empty string stands for a request without the header
RangeTokens == {"bytes=", "-", "0", "2", "x"}
Digits == {"0", "2"}
DigitValue(t) == IF t = "0" THEN 0 ELSE 2
RangeHeaders == UNION {[1..k -> RangeTokens] : k \in 0..MaxHeaderLen}

\* a JavaScript number that may be NaN
NaN == [nan |-> TRUE, val |-> 0]
Num(n) == [nan |-> FALSE, val |-> n]

\* range.replace(/bytes=/, ""): the first occurrence is removed
RemoveBytesUnit(h) ==
    IF \E i \in 1..Len(h) : h[i] = "bytes="
    THEN LET i == CHOOSE i \in 1..Len(h) :
                     h[i] = "bytes=" /\ \A j \in 1..(i - 1) : h[j] # "bytes="
         IN  SubSeq(h, 1, i - 1) \o SubSeq(h, i + 1, Len(h))
    ELSE h

\* str.split("-")
RECURSIVE SplitDash(_)
SplitDash(h) ==
    IF \E i \in 1..Len(h) : h[i] = "-"
    THEN LET i == CHOOSE i \in 1..Len(h) :
                     h[i] = "-" /\ \A j \in 1..(i - 1) : h[j] # "-"
         IN  <<SubSeq(h, 1, i - 1)>> \o SplitDash(SubSeq(h, i + 1, Len(h)))
    ELSE <<h>>

\* the value of the leading digits of a string, given the value so far
RECURSIVE LeadingDigits(_, _)
LeadingDigits(text, acc) ==
    IF text # <<>> /\ Head(text) \in Digits
    THEN LeadingDigits(Tail(text), 10 * acc + DigitValue(Head(text)))
    ELSE acc

\* parseInt(text, 10): the leading digits, NaN when there is none
ParseInt(text) ==
    IF text # <<>> /\ Head(text) \in Digits THEN Num(LeadingDigits(text, 0))
    ELSE NaN

\* start and end of the handler: end = parts[1] ? parseInt(parts[1]) : fileSize - 1
RangeStart(h) == ParseInt(SplitDash(RemoveBytesUnit(h))[1])
RangeEnd(h, fileSize) ==
    LET parts == SplitDash(RemoveBytesUnit(h))
    IN  IF Len(parts) >= 2 /\ parts[2] # <<>> THEN ParseInt(parts[2])
        ELSE Num(fileSize - 1)

\* the offsets fs.createReadStream(path, {start, end}) delivers from a file
\* of fileSize bytes: it stops at the end of the file
FileBytes(start, end, fileSize) ==
    LET last == Min(end, fileSize - 1)
    IN  [i \in 1..(last - start + 1) |-> start + i - 1]

\* a response of the local branch; contentRange is <<start, end, size>>,
\* <<size>> for bytes */size, <<>> when the header is not set; opened tells
\* whether a read stream was opened
LocalResponse(code, contentRange, acceptRanges, contentLength, body, opened) ==
    [code |-> code, contentRange |-> contentRange, acceptRanges |-> acceptRanges,
     contentLength |-> contentLength, body |-> body, opened |-> opened]

\* createReadStream throws for an end that is no integer or is below start:
\* the handler's catch answers 500 before any header was written
ReadStreamThrows(start, end) == end.nan \/ start.val > end.val

\* the number of the Content-Length header of a 206
ChunkSize(start, end, fileSize) == (end - start) + 1

\* the ranged branch of the handler
RangedResponse(h, fileSize) ==
    LET start == RangeStart(h)
        end == RangeEnd(h, fileSize)
    IN  IF start.nan \/ start.val >= fileSize
        THEN LocalResponse(416, <<fileSize>>, "", 0, <<>>, FALSE)
        ELSE IF ReadStreamThrows(start, end)
        THEN LocalResponse(500, <<>>, "", 0, <<>>, FALSE)
        ELSE LocalResponse(206, <<start.val, end.val, fileSize>>, "bytes",
                           ChunkSize(start.val, end.val, fileSize),
                           FileBytes(start.val, end.val, fileSize), TRUE)

\* the branch without Range header
WholeResponse(fileSize) ==
    LocalResponse(200, <<>>, "", fileSize, FileBytes(0, fileSize - 1, fileSize), TRUE)

\* if (range) { ... }
ServeRanged ==
    /\ rng.pc = "request" /\ rng.header # <<>>
    /\ rng' = [rng EXCEPT !.pc = "done",
                          !.resp = RangedResponse(rng.header, rng.size)]
    /\ UNCHANGED <<role, course, payments, progress, req, seen, met, started,
                   levels, xfer, outbox>>

\* else { ... }
ServeWhole ==
    /\ rng.pc = "request" /\ rng.header = <<>>
    /\ rng' = [rng EXCEPT !.pc = "done", !.resp = WholeResponse(rng.size)]
    /\ UNCHANGED <<role, course, payments, progress, req, seen, met, started,
                   levels, xfer, outbox>>

\* a streamable local file of any size, requested with any header
InitRange ==
    /\ role = "student"
    /\ course = [price |-> 0, status |-> "published"]
    /\ payments = <<>>
    /\ progress = <<>>
    /\ req = [q \in Slots |-> Idle]
    /\ seen = [q \in Slots |-> {}]
    /\ met = {}
    /\ started = 0
    /\ levels = [n \in Levels |-> LocalVideo]
    /\ xfer = NoTransfer
    /\ rng \in {[pc |-> "request", size |-> sz, header |-> h,
                  resp |-> LocalResponse(0, <<>>, "", 0, <<>>, FALSE)] :
                     sz \in 0..MaxFileSize, h \in RangeHeaders}
    /\ outbox = {}

NextRange == ServeRanged \/ ServeWhole
SpecRange == InitRange /\ [][NextRange]_vars

----------------------------------------------------------------------------
(* The stream endpoint: a remote video, proxied (proxyRemoteVideo) *)

MaxChunks == 2          \* chunks of an upstream body

\* upstream.status and the content-type header of the upstream response
UpstreamStatuses == {200, 206, 403, 404}
ContentTypes == {"video/mp4", "text/html; charset=utf-8", ""}

\* upstream.ok
UpstreamOk(status) == status >= 200 /\ status <= 299
\* contentType.includes('text/html')
IsHtml(contentType) == contentType = "text/html; charset=utf-8"

\* a transfer: phase is the handler's position; listening tells whether the
\* 'close' listener is on the request; aborted is controller.signal.aborted;
\* client is the client's connection; upstream is the upstream fetch:
\* "fetching" until its headers, "open" while its body is unread, "done",
\* "failed", "aborted", or "unread" for a body that is dropped; code is the
\* status of the response to the client, 0 when none is set; left and
\* forwarded count the chunks still upstream and those written to the client
Transfer(phase, listening, aborted, client, upstream, status, contentType, code, left, forwarded) ==
    [phase |-> phase, listening |-> listening, aborted |-> aborted,
     client |-> client, upstream |-> upstream, status |-> status,
     contentType |-> contentType, code |-> code, left |-> left,
     forwarded |-> forwarded]

OnlyTransfer ==
    UNCHANGED <<role, course, payments, progress, req, seen, met, started,
                levels, rng, outbox>>

\* req.on('close', cleanup) and fetch(remoteUrl, {signal}) is awaited
ProxyStart ==
    /\ xfer = NoTransfer
    /\ xfer' = Transfer("fetching", TRUE, FALSE, "open", "fetching", 0, "", 0, 0, 0)
    /\ OnlyTransfer

\* the upstream answers: 502 for an ok HTML page; else its status and
\* headers are passed on and its body, when it has one, is piped to the
\* client; the finally block takes the listener off in each case
UpstreamHeaders ==
    /\ xfer.phase = "fetching" /\ ~xfer.aborted
    /\ \E status \in UpstreamStatuses, contentType \in ContentTypes,
          chunks \in 0..MaxChunks :
        xfer' =
            IF UpstreamOk(status) /\ IsHtml(contentType)
            THEN Transfer("ended", FALSE, FALSE, xfer.client, "unread", status,
                          contentType, 502, chunks, 0)
            ELSE IF chunks = 0
            THEN Transfer("ended", FALSE, FALSE, xfer.client, "done", status,
                          contentType, status, 0, 0)
            ELSE Transfer("piping", FALSE, FALSE, xfer.client, "open", status,
                          contentType, status, chunks, 0)
    /\ OnlyTransfer

\* the fetch rejects for a network error: catch, no header sent yet
UpstreamFails ==
    /\ xfer.phase = "fetching" /\ ~xfer.aborted
    /\ xfer' = [xfer EXCEPT !.phase = "ended", !.listening = FALSE,
                            !.upstream = "failed", !.code = 502]
    /\ OnlyTransfer

\* the client disconnects: 'close' on the request calls cleanup when the
\* listener is still on it; a pipe whose destination closed is unpiped
ClientClose ==
    /\ xfer.phase \in {"fetching", "piping"} /\ xfer.client = "open"
    /\ xfer' = [xfer EXCEPT !.client = "closed",
                            !.aborted = xfer.listening,
                            !.upstream = IF xfer.listening THEN "aborted" ELSE @]
    /\ OnlyTransfer

\* the aborted fetch rejects: catch, if (controller.signal.aborted) return
FetchRejects ==
    /\ xfer.phase = "fetching" /\ xfer.aborted
    /\ xfer' = [xfer EXCEPT !.phase = "ended", !.listening = FALSE]
    /\ OnlyTransfer

\* Readable.fromWeb(upstream.body).pipe(res): a chunk goes to the client
PipeChunk ==
    /\ xfer.phase = "piping" /\ xfer.client = "open" /\ xfer.left > 0
    /\ xfer' = [xfer EXCEPT !.left = @ - 1, !.forwarded = @ + 1]
    /\ OnlyTransfer

\* the upstream body ends and pipe ends the response
UpstreamEnd ==
    /\ xfer.phase = "piping" /\ xfer.client = "open" /\ xfer.left = 0
    /\ xfer' = [xfer EXCEPT !.phase = "ended", !.upstream = "done"]
    /\ OnlyTransfer

InitProxy ==
    /\ role = "student"
    /\ course = [price |-> 0, status |-> "published"]
    /\ payments = <<>>
    /\ progress = <<>>
    /\ req = [q \in Slots |-> Idle]
    /\ seen = [q \in Slots |-> {}]
    /\ met = {}
    /\ started = 0
    /\ levels = [n \in Levels |-> DriveVideo]
    /\ xfer = NoTransfer
    /\ rng = NoRange
    /\ outbox = {}

NextProxy ==
    \/ ProxyStart
    \/ UpstreamHeaders
    \/ UpstreamFails
    \/ ClientClose
    \/ FetchRejects
    \/ PipeChunk
    \/ UpstreamEnd
SpecProxy == InitProxy /\ [][NextProxy]_vars

----------------------------------------------------------------------------
(* The payment requests and the notifications they schedule *)

\* what becomes of a notification when its callback runs: the user or the
\* course is not found ("skipped"), the mail is sent, or sending throws and
\* the catch logs it ("failed")
Outcomes == {"skipped", "sent", "failed"}

\* the callback of setImmediate runs: it reads the user and the course,
\* sends the mails and catches every error
RunNotification ==
    /\ \E e \in outbox, o \in Outcomes :
        /\ e.state = "scheduled"
        /\ outbox' = (outbox \ {e}) \cup {[e EXCEPT !.state = o]}
    /\ UNCHANGED <<role, course, payments, progress, req, seen, met, started,
                   levels, xfer, rng>>

\* a student and a paid course
InitMail ==
    /\ role = "student"
    /\ course = [price |-> 500, status |-> "published"]
    /\ payments = <<>>
    /\ progress = <<>>
    /\ req = [q \in Slots |-> Idle]
    /\ seen = [q \in Slots |-> {}]
    /\ met = {}
    /\ started = 0
    /\ levels = [n \in Levels |-> LocalVideo]
    /\ xfer = NoTransfer
    /\ rng = NoRange
    /\ outbox = {}

NextMail ==
    \/ \E r \in LearnerSlots :
          \/ BeginSubmit(r, Concurrent)
          \/ SubmitCheck(r)
          \/ SubmitWrite(r)
    \/ VerifierStep(Concurrent)
    \/ \E r \in Slots : Respond(r)
    \/ RunNotification
SpecMail == InitMail /\ [][NextMail]_vars

----------------------------------------------------------------------------
(* The lazy creation of the Progress record, its find and its create apart *)

\* In the sections above a handler's Progress.findOne and Progress.create
\* are one step.  Here they are two, with the steps of other requests in
\* between, for the handlers that create the record: level-complete, quiz
\* submit, stream, GET /courses/:id and the approval of a payment.

\* request q stands before its find-or-create
AtEnsure(q) ==
    /\ NoDone
    /\ \/ /\ q \in LearnerSlots
          /\ req[q].op \in {"level-complete", "quiz-submit", "stream"}
          /\ req[q].pc = "apply"
       \/ /\ q = VerifierSlot
          /\ req[q].op = "status" /\ req[q].pc = "write"
          /\ req[q].arg.status = "approved"

\* the request has its Progress document
Ensured(q) == "ensured" \in DOMAIN req[q]

\* Progress.findOne({userId, courseId})
LazyFind(q) ==
    /\ AtEnsure(q) /\ "found" \notin DOMAIN req[q]
    /\ req' = [req EXCEPT ![q] =
                  SpreadField(@, "found", FindProgress(Learner) # NoDoc)]
    /\ UNCHANGED <<media, role, course, payments, progress, seen, met, started>>

\* if (!progress) Progress.create(...): the unique index refuses a second
\* record of the pair, the error reaches the handler's catch and the request
\* answers 500
LazyCreate(q) ==
    /\ AtEnsure(q) /\ "found" \in DOMAIN req[q] /\ ~Ensured(q)
    /\ IF req[q].found
       THEN /\ progress' = progress
            /\ req' = [req EXCEPT ![q] = SpreadField(@, "ensured", TRUE)]
       ELSE IF ProgressDuplicateKey(Learner)
       THEN /\ progress' = progress
            /\ req' = [req EXCEPT ![q] = Answer(q, req[q].arg, 500, "server")]
       ELSE /\ progress' = Append(progress, NewProgress(Learner))
            /\ req' = [req EXCEPT ![q] = SpreadField(@, "ensured", TRUE)]
    /\ UNCHANGED <<media, role, course, payments, seen, met, started>>

\* GET /courses/:id: the reads of Promise.all
CourseViewRead(r) ==
    /\ At(r, "course-view", "start")
    /\ LET payment == FindPayment(Learner)
           hasAccess == role = "admin" \/ course.price = 0
                          \/ (payment # NoDoc /\ payment.status = "approved")
       IN  req' = [req EXCEPT ![r] =
               IF ~CourseVisible THEN Answer(r, NoDoc, 404, "course")
               ELSE [op |-> "course-view", pc |-> "create", arg |-> NoDoc,
                     hasAccess |-> hasAccess, found |-> FindProgress(Learner)]]
    /\ seen' = [seen EXCEPT ![r] = {}]
    /\ UNCHANGED <<media, role, course, payments, progress, met, started>>

\* GET /courses/:id: the creation and the listing
CourseViewCreate(r) ==
    /\ At(r, "course-view", "create")
    /\ LET hasAccess == req[r].hasAccess
           create == hasAccess /\ req[r].found = NoDoc /\ role # "admin"
           ensuredProgress == IF create THEN NewProgress(Learner) ELSE req[r].found
       IN  IF create /\ ProgressDuplicateKey(Learner)
           THEN /\ progress' = progress
                /\ req' = [req EXCEPT ![r] = Answer(r, NoDoc, 500, "server")]
           ELSE /\ progress' = IF create THEN Append(progress, NewProgress(Learner))
                               ELSE progress
                /\ req' = [req EXCEPT ![r] =
                              CourseAnswer(hasAccess, ensuredProgress)]
    /\ UNCHANGED <<media, role, course, payments, seen, met, started>>

\* a student, a published course and a payment that is or is about to be
\* approved; no Progress record yet
InitEnsure ==
    /\ role = "student"
    /\ course \in [price : Prices, status : {"published"}]
    /\ payments \in {<<PaymentIn(st)>> : st \in {"pending", "approved"}}
    /\ progress = <<>>
    /\ req = [q \in Slots |-> Idle]
    /\ seen = [q \in Slots |-> {}]
    /\ met = {}
    /\ started = 0
    /\ levels = [n \in Levels |-> LocalVideo]
    /\ xfer = NoTransfer
    /\ rng = NoRange
    /\ outbox = {}

\* as many requests as can be in flight at once, and no more after them
Racing == [inflight |-> MaxInFlight, budget |-> MaxInFlight]

NextEnsure ==
    \/ \E r \in LearnerSlots :
          \/ BeginLevelComplete(r, Racing)
          \/ LevelCompleteAccess(r)
          \/ Ensured(r) /\ LevelCompleteApply(r)
          \/ BeginQuizSubmit(r, Racing)
          \/ QuizSubmitAccess(r)
          \/ Ensured(r) /\ QuizSubmitApply(r)
          \/ BeginStream(r, Racing)
          \/ StreamAccess(r)
          \/ Ensured(r) /\ StreamApply(r)
          \/ BeginCourseView(r, Racing)
          \/ CourseViewRead(r)
          \/ CourseViewCreate(r)
    \/ BeginUpdateStatus(Racing)
    \/ UpdateStatusRead
    \/ /\ req[VerifierSlot].pc = "write"
       /\ req[VerifierSlot].arg.status # "approved" \/ Ensured(VerifierSlot)
       /\ UpdateStatusWrite
    \/ \E q \in Slots : LazyFind(q) \/ LazyCreate(q) \/ Respond(q)
SpecEnsure == InitEnsure /\ [][NextEnsure]_vars

----------------------------------------------------------------------------
(* The quiz submission, its read and its save apart *)

\* progress.save() of a quiz submission that loaded `loaded` and holds
\* `assigned`, when the collection holds `stored`: the assigned entry is set
\* at its index, or pushed when the loaded document had none, and the other
\* modified paths are set; the update is by _id, and the version of the
\* document is compared only after a change of array positions, which an
\* entry set at its index is not
SaveQuiz(stored, loaded, assigned) ==
    LET idx == LevelIndex(loaded, QuizLevel)
        entry == assigned.completedLevels[LevelIndex(assigned, QuizLevel)]
    IN  [f \in DOMAIN stored |->
            IF f = "completedLevels"
            THEN (IF idx > 0 THEN [stored.completedLevels EXCEPT ![idx] = entry]
                  ELSE Append(stored.completedLevels, entry))
            ELSE IF assigned[f] # loaded[f] THEN assigned[f]
            ELSE stored[f]]

\* Progress.findOne (and create), the attempts check and the scoring
QuizRead(r) ==
    /\ At(r, "quiz-submit", "apply")
    /\ \E sheet \in AnswerSheets :
        LET doc == EnsuredDoc(Learner)
            idx == LevelIndex(doc, QuizLevel)
            attemptsUsedBefore ==
                IF idx > 0 THEN doc.completedLevels[idx].quizAttempts ELSE 0
        IN  req' = [req EXCEPT ![r] =
                IF AttemptsExhausted(attemptsUsedBefore)
                THEN Answer(r, sheet, 400, "attempts")
                ELSE [op |-> "quiz-submit", pc |-> "save", arg |-> sheet,
                      loc |-> doc, new |-> QuizRecorded(doc, sheet)]]
    /\ progress' = EnsureProgress(Learner)
    /\ UNCHANGED <<media, role, course, payments, seen, met, started>>

\* Level.countDocuments, progress.save() and the answer
QuizSave(r) ==
    /\ At(r, "quiz-submit", "save")
    /\ progress' = [progress EXCEPT ![req[r].loc.id] =
                        SaveQuiz(@, req[r].loc, req[r].new)]
    /\ req' = [req EXCEPT ![r] =
                  [op |-> "quiz-submit", pc |-> "done", arg |-> req[r].arg,
                   resp |-> [code |-> 200, why |-> "scored"],
                   score |-> QuizScore(req[r].arg),
                   passed |-> QuizScore(req[r].arg) >= PassingScore]]
    /\ UNCHANGED <<media, role, course, payments, seen, met, started>>

\* a student at the quiz level of a free course, before or after a report of
\* the video of that level
InitQuiz ==
    /\ role = "student"
    /\ course = [price |-> 0, status |-> "published"]
    /\ payments = <<>>
    /\ progress \in
          { <<ProgressAt(QuizLevel)>>,
            <<LevelCompleted(ProgressAt(QuizLevel),
                  [level |-> QuizLevel, percent |-> VideoThreshold,
                   quizPassed |-> FALSE])>> }
    /\ req = [q \in Slots |-> Idle]
    /\ seen = [q \in Slots |-> {}]
    /\ met = {}
    /\ started = 0
    /\ levels = [n \in Levels |-> LocalVideo]
    /\ xfer = NoTransfer
    /\ rng = NoRange
    /\ outbox = {}

NextQuiz ==
    \E r \in LearnerSlots :
        \/ BeginQuizSubmit(r, Concurrent)
        \/ QuizSubmitAccess(r)
        \/ QuizRead(r)
        \/ QuizSave(r)
        \/ Respond(r)
SpecQuiz == InitQuiz /\ [][NextQuiz]_vars

----------------------------------------------------------------------------
(* The learner who follows the course *)

\* The learner sends one request at a time: for the level they are at, the
\* report of the video (90 percent), then for a quiz level quiz submissions,
\* failing ones only while a later attempt is left; between these, a bounded
\* number of stream requests.

\* the level the learner is at
PathLevel ==
    IF FindProgress(Learner) = NoDoc THEN 1 ELSE FindProgress(Learner).currentLevel
\* the video of level n is recorded as watched
Watched(n) ==
    LET doc == FindProgress(Learner)
    IN  /\ doc # NoDoc
        /\ LevelIndex(doc, n) > 0
        /\ doc.completedLevels[LevelIndex(doc, n)].videoWatchedPercent >= VideoThreshold
\* one request at a time, MaxRequests stream requests in all
Watching == [inflight |-> 1, budget |-> MaxRequests]

\* a student with access to the published course, at any level of it
InitLive ==
    /\ role = "student"
    /\ course \in [price : Prices, status : {"published"}]
    /\ payments = <<PaymentIn("approved")>>
    /\ progress \in {<<>>} \cup {<<ProgressAt(c)>> : c \in 1..NumLevels}
    /\ req = [q \in Slots |-> Idle]
    /\ seen = [q \in Slots |-> {}]
    /\ met = {}
    /\ started = 0
    /\ levels = [n \in Levels |-> LocalVideo]
    /\ xfer = NoTransfer
    /\ rng = NoRange
    /\ outbox = {}

NextLive ==
    \E r \in LearnerSlots :
        \/ /\ PathLevel <= NumLevels /\ ~Watched(PathLevel)
           /\ BeginLevelComplete(r, Serial)
        \/ LevelCompleteAccess(r)
        \/ /\ LevelCompleteApply(r)
           /\ req'[r].arg = [level |-> PathLevel, percent |-> VideoThreshold,
                             quizPassed |-> FALSE]
        \/ /\ PathLevel <= NumLevels /\ QuizEnabled(PathLevel) /\ Watched(PathLevel)
           /\ BeginQuizSubmit(r, Serial)
        \/ QuizSubmitAccess(r)
        \/ /\ QuizSubmitApply(r)
           /\ \/ req'[r].resp.code # 200
              \/ req'[r].passed
              \/ StoredAttempts + 1 < QuizMaxAttempts
        \/ BeginStream(r, Watching)
        \/ StreamAccess(r)
        \/ StreamApply(r)
        \/ Respond(r)
\* the event loop runs every continuation that is ready, and the learner
\* sends the next request of the path
SpecLive == InitLive /\ [][NextLive]_vars /\ WF_vars(NextLive)

----------------------------------------------------------------------------
(* Claims *)

\* the learner's Progress document, NoDoc when there is none
LearnerProgress == FindProgress(Learner)
\* the number of Payment records of the learner's (learner, course) pair
PairPayments == Cardinality({i \in 1..Len(payments) : payments[i].userId = Learner})
\* the entitlement rule of the specification, for a payment approved (a) or not
EntitlementRule(a) == role = "admin" \/ course.price = 0 \/ a
\* slot r has just taken the entitlement decision of a gated request
JustDecided(r) ==
    /\ req[r].pc = "start"
    /\ req[r].op \in {"stream", "level-complete", "quiz-submit", "get-progress"}
    /\ req'[r].pc \in {"apply", "done"}
    /\ "access" \in DOMAIN req'[r]

\* C1: a gated request (stream, level-complete, quiz submit, progress read) on
\* a visible course decides access = admin or free course or approved payment,
\* on the payments as they are at the decision; when the decision is false the
\* request is answered 403 at once, with the Progress collection untouched, and
\* only a request whose decision was true is answered 200.
C1_EntitlementDecision ==
    [][\A r \in LearnerSlots :
          /\ JustDecided(r) =>
               /\ req'[r].access = EntitlementRule(IsApproved(payments))
               /\ ~req'[r].access =>
                    /\ req'[r].pc = "done"
                    /\ req'[r].resp.code = 403
                    /\ progress' = progress
               /\ req'[r].access => req'[r].pc = "apply"
          /\ ( /\ req[r].op \in {"stream", "level-complete", "quiz-submit", "get-progress"}
               /\ req[r].pc # "done" /\ req'[r].pc = "done"
               /\ req'[r].resp.code = 200 )
             => (req[r].pc = "apply" /\ req[r].access)]_vars

\* a student without approved payment was refused the stream of a paid course
C1_Witness ==
    \E r \in LearnerSlots :
        /\ req[r].pc = "done" /\ req[r].op = "stream"
        /\ req[r].resp = [code |-> 403, why |-> "payment"]
        /\ role = "student" /\ course.price > 0 /\ ~IsApproved(payments)

\* C2: with requests interleaving, the entitlement decision of a request is
\* the rule applied to an approved-ness of the payment that held at some moment
\* since the request began: a request begun after a revocation committed (and
\* with no approval since) is refused, one begun after an approval committed
\* (and with no revocation since) is not refused for lack of entitlement.
C2_DecisionFresh ==
    \A r \in LearnerSlots :
        "since" \in DOMAIN req[r] =>
            \E a \in req[r].since : req[r].access = EntitlementRule(a)

\* a stream begun after the approved payment was revoked is refused
C2_Witness ==
    \E r \in LearnerSlots :
        /\ req[r].pc = "done" /\ req[r].op = "stream"
        /\ req[r].resp = [code |-> 403, why |-> "payment"]
        /\ req[r].since = {FALSE}
        /\ Len(payments) = 1 /\ payments[1].status # "approved"
        /\ payments[1].verifiedAt = 1
        /\ Len(progress) = 1

\* C3: in every Progress record with currentLevel = c, the completion
\* condition of each level 1..c-1 was met at some earlier moment.
C3_NoSkip ==
    \A i \in 1..Len(progress) :
        \A n \in 1..(progress[i].currentLevel - 1) : n \in met

\* the learner has been advanced past the last level
C3_Witness ==
    /\ LearnerProgress # NoDoc
    /\ LearnerProgress.currentLevel = NumLevels + 1
    /\ met = Levels

\* C4: no operation lowers the currentLevel of a Progress record, and no
\* operation removes a record.
C4_CurrentLevelMonotone ==
    [][/\ Len(progress') >= Len(progress)
       /\ \A i \in 1..Len(progress) :
             progress'[i].currentLevel >= progress[i].currentLevel]_vars

\* a lower percentage was reported again for a level the learner is past
C4_Witness ==
    \E r \in LearnerSlots :
        /\ req[r].pc = "done" /\ req[r].op = "level-complete"
        /\ req[r].resp.code = 200
        /\ req[r].arg.percent < VideoThreshold
        /\ LearnerProgress.currentLevel > req[r].arg.level + 1

\* slot r has just run the progress part of a level-complete for a level
\* above the learner's currentLevel (1 when there is no record yet)
AboveCurrentLevel(r) ==
    /\ req[r].op = "level-complete" /\ req[r].pc = "apply"
    /\ req'[r].pc = "done"
    /\ req'[r].arg.level >
           (IF LearnerProgress = NoDoc THEN 1 ELSE LearnerProgress.currentLevel)

\* C5 as stated: a level-complete for a level above currentLevel is answered
\* 403 and the Progress collection is left as it was.
C5_Original ==
    [][\A r \in LearnerSlots :
          AboveCurrentLevel(r) =>
              /\ req'[r].resp.code = 403
              /\ progress' = progress]_vars

\* C5: a level-complete for a level above currentLevel (1 when the learner has
\* no record) is answered 403; an existing record keeps every field, and when
\* the learner had no record one is created with currentLevel 1, no level
\* entries and totalProgress 0.
C5_Amended ==
    [][\A r \in LearnerSlots :
          AboveCurrentLevel(r) =>
              /\ req'[r].resp.code = 403
              /\ met' = met
              /\ IF LearnerProgress # NoDoc THEN progress' = progress
                 ELSE /\ Len(progress') = Len(progress) + 1
                      /\ \A i \in 1..Len(progress) : progress'[i] = progress[i]
                      /\ LET d == progress'[Len(progress')]
                         IN  /\ d.userId = Learner
                             /\ d.currentLevel = 1
                             /\ d.completedLevels = <<>>
                             /\ d.totalProgress = 0
                             /\ ~d.courseCompleted]_vars

\* level 2 was reported by a learner who had no record: 403, and a record
\* at level 1 now exists
C5_Witness ==
    \E r \in LearnerSlots :
        /\ req[r].pc = "done" /\ req[r].op = "level-complete"
        /\ req[r].resp = [code |-> 403, why |-> "sequence"]
        /\ req[r].arg.level = 2
        /\ Len(progress) = 1
        /\ progress[1].currentLevel = 1 /\ progress[1].completedLevels = <<>>
        /\ progress[1].lastAccessedAt = 1

\* C6: the pair never has two Payment records; a POST /payments that read no
\* record is answered 201 exactly when it created the pair's only record, and
\* 400 (conflict) when another submission created it first.
C6_OnePaymentPerPair ==
    /\ PairPayments <= 1
    /\ \A r \in LearnerSlots :
          (req[r].op = "submit" /\ req[r].pc = "done" /\ "read" \in DOMAIN req[r]
             /\ req[r].read = NoDoc)
          => \/ /\ req[r].resp.code = 201
                /\ PairPayments = 1
                /\ req[r].id = FindPayment(Learner).id
             \/ /\ req[r].resp = [code |-> 400, why |-> "conflict"]
                /\ PairPayments = 1
                /\ req[r].id = 0

\* the later of two first submissions got the conflict answer
C6_Witness ==
    \E r \in LearnerSlots :
        /\ req[r].op = "submit" /\ req[r].pc = "done"
        /\ req[r].resp = [code |-> 400, why |-> "conflict"]
        /\ PairPayments = 1

\* C7: with requests handled one after another, a POST /payments that finds
\* the pair's record rejected is answered 200 and updates that record in
\* place: status pending, the new transactionId, amount and proof image,
\* rejectionReason empty, verifiedBy and verifiedAt cleared; no record is added.
C7_ResubmissionInPlace ==
    \A r \in LearnerSlots :
        (req[r].op = "submit" /\ req[r].pc = "done" /\ "read" \in DOMAIN req[r]
           /\ req[r].read # NoDoc)
        => /\ req[r].read.status = "rejected"
           /\ req[r].resp.code = 200
           /\ PairPayments = 1
           /\ req[r].id = req[r].read.id
           /\ payments[req[r].id] =
                 [id |-> req[r].read.id, userId |-> req[r].read.userId,
                  transactionId |-> req[r].arg.transactionId,
                  amount |-> (IF req[r].arg.hasAmount THEN req[r].arg.amount
                              ELSE course.price),
                  proofImage |-> req[r].arg.proof,
                  status |-> "pending", verifiedBy |-> NoUser,
                  verifiedAt |-> 0, rejectionReason |-> ""]

\* a rejected payment with a reason was resubmitted with another transactionId
C7_Witness ==
    \E r \in LearnerSlots :
        /\ req[r].op = "submit" /\ req[r].pc = "done"
        /\ req[r].resp.code = 200
        /\ req[r].read.rejectionReason = "blurry"
        /\ req[r].read.verifiedBy = Verifier
        /\ req[r].read.transactionId # req[r].arg.transactionId

\* C8 as stated: the only committed status changes are pending -> approved,
\* pending -> rejected and rejected -> pending.
C8_Original ==
    [][\A i \in 1..Len(payments) :
          payments'[i].status # payments[i].status =>
              <<payments[i].status, payments'[i].status>> \in
                  { <<"pending", "approved">>, <<"pending", "rejected">>,
                    <<"rejected", "pending">> }]_vars

\* C8: a Payment record starts pending and its status is always one of
\* pending, approved, rejected; POST /payments changes a status only to
\* pending and only of a record it read as rejected; the verifier's status
\* update changes a status, whatever it is, to the requested one of the three.
C8_Amended ==
    /\ [](\A i \in 1..Len(payments) : payments[i].status \in Statuses)
    /\ [][/\ \A i \in (Len(payments) + 1)..Len(payments') :
                payments'[i].status = "pending"
          /\ \A i \in 1..Len(payments) :
                payments'[i].status # payments[i].status =>
                    \/ /\ req[VerifierSlot].pc = "write"
                       /\ req'[VerifierSlot].pc = "done"
                       /\ req[VerifierSlot].arg.id = i
                       /\ payments'[i].status = req[VerifierSlot].arg.status
                    \/ \E r \in LearnerSlots :
                          /\ req[r].op = "submit" /\ req[r].pc = "write"
                          /\ req'[r].pc = "done"
                          /\ req[r].loc.status = "rejected"
                          /\ payments'[i].status = "pending"]_vars

\* the verifier has moved an approved payment to rejected
C8_Witness ==
    /\ req[VerifierSlot].pc = "done" /\ req[VerifierSlot].resp.code = 200
    /\ req[VerifierSlot].read.status = "approved"
    /\ req[VerifierSlot].arg.status = "rejected"
    /\ payments[1].status = "rejected"

\* C9: a POST /payments that finds the pair's record pending or approved is
\* answered 400 at its existence read and the Payment collection is unchanged.
C9_CoveredRejected ==
    [][\A r \in LearnerSlots :
          ( /\ req[r].op = "submit" /\ req[r].pc = "start"
            /\ req'[r].pc # "start"
            /\ FindPayment(Learner) # NoDoc
            /\ FindPayment(Learner).status \in {"pending", "approved"} )
          => /\ req'[r].pc = "done"
             /\ req'[r].resp.code = 400
             /\ (IF req'[r].arg.hasAmount THEN req'[r].arg.amount ELSE course.price) > 0
                   => req'[r].resp.why = "covered"
             /\ payments' = payments]_vars

\* a submission for an approved payment was refused
C9_Witness ==
    \E r \in LearnerSlots :
        /\ req[r].op = "submit" /\ req[r].pc = "done"
        /\ req[r].resp = [code |-> 400, why |-> "covered"]
        /\ Len(payments) = 1 /\ payments[1].status = "approved"

\* C10: whenever a payment is approved its user has a Progress record; the
\* approving update creates it (currentLevel 1, no level entries,
\* totalProgress 0) when there was none and leaves an existing one as it was.
C10_ApprovalEnsuresProgress ==
    /\ [](\A i \in 1..Len(payments) :
             payments[i].status = "approved" => FindProgress(payments[i].userId) # NoDoc)
    /\ [][( /\ req[VerifierSlot].pc = "write" /\ req'[VerifierSlot].pc = "done"
            /\ req[VerifierSlot].arg.status = "approved" )
          => IF LearnerProgress # NoDoc THEN progress' = progress
             ELSE /\ Len(progress') = Len(progress) + 1
                  /\ \A i \in 1..Len(progress) : progress'[i] = progress[i]
                  /\ LET d == progress'[Len(progress')]
                     IN  /\ d.userId = Learner
                         /\ d.currentLevel = 1
                         /\ d.completedLevels = <<>>
                         /\ d.totalProgress = 0]_vars

\* an approval has created the learner's record
C10_Witness ==
    /\ req[VerifierSlot].pc = "done" /\ req[VerifierSlot].resp.code = 200
    /\ req[VerifierSlot].arg.status = "approved"
    /\ payments[1].status = "approved"
    /\ Len(progress) = 1
    /\ progress[1].currentLevel = 1 /\ progress[1].completedLevels = <<>>
    /\ progress[1].totalProgress = 0

\* slot r has just run the progress part of a quiz submission
QuizApplied(r) ==
    /\ req[r].op = "quiz-submit" /\ req[r].pc = "apply"
    /\ req'[r].pc = "done"
\* the videoWatchedPercent recorded for the quiz level, 0 without an entry
StoredPercent ==
    IF LearnerProgress = NoDoc \/ LevelIndex(LearnerProgress, QuizLevel) = 0 THEN 0
    ELSE LearnerProgress.completedLevels[LevelIndex(LearnerProgress, QuizLevel)]
             .videoWatchedPercent
\* the learner's entry of the quiz level (one exists)
QuizEntry ==
    LearnerProgress.completedLevels[LevelIndex(LearnerProgress, QuizLevel)]

\* C11: a scored quiz submission that passes while the recorded
\* videoWatchedPercent of the level is below 90 (0 without an entry) leaves
\* the level not completed and currentLevel where it was (1 for a record
\* just created), and records the score, quizPassed and one more attempt.
C11_PassWithoutVideo ==
    [][\A r \in LearnerSlots :
          ( /\ QuizApplied(r)
            /\ req'[r].resp.code = 200
            /\ req'[r].score >= 70
            /\ StoredPercent < 90 )
          => /\ ~QuizEntry'.completed
             /\ LearnerProgress'.currentLevel =
                   (IF LearnerProgress = NoDoc THEN 1 ELSE LearnerProgress.currentLevel)
             /\ ~LearnerProgress'.courseCompleted = (LearnerProgress = NoDoc
                                                      \/ ~LearnerProgress.courseCompleted)
             /\ QuizEntry'.quizScore = req'[r].score
             /\ QuizEntry'.quizPassed
             /\ QuizEntry'.quizAttempts = StoredAttempts + 1]_vars

\* the learner is at the quiz level with less than 90% watched and has
\* passed the quiz
C11_Witness ==
    \E r \in LearnerSlots :
        /\ req[r].op = "quiz-submit" /\ req[r].pc = "done"
        /\ req[r].resp.code = 200 /\ req[r].passed
        /\ LearnerProgress.currentLevel = QuizLevel
        /\ StoredPercent < 90
        /\ ~QuizEntry.completed /\ QuizEntry.quizPassed

\* C12: a non-admin learner never has more than maxAttempts attempts
\* recorded; a submission that finds maxAttempts attempts recorded is answered
\* 400 and leaves the Progress collection as it was; an admin's submission is
\* never refused for attempts.
C12_MaxAttempts ==
    /\ [](role # "admin" => StoredAttempts <= QuizMaxAttempts)
    /\ [][\A r \in LearnerSlots :
             QuizApplied(r) =>
                IF role = "admin" THEN req'[r].resp.code = 200
                ELSE IF StoredAttempts >= QuizMaxAttempts
                THEN /\ req'[r].resp = [code |-> 400, why |-> "attempts"]
                     /\ "score" \notin DOMAIN req'[r]
                     /\ progress' = progress
                ELSE /\ req'[r].resp.code = 200
                     /\ StoredAttempts' = StoredAttempts + 1]_vars

\* a student who used every attempt was refused
C12_Witness ==
    \E r \in LearnerSlots :
        /\ req[r].op = "quiz-submit" /\ req[r].pc = "done"
        /\ req[r].resp = [code |-> 400, why |-> "attempts"]
        /\ role = "student"
        /\ StoredAttempts = QuizMaxAttempts

\* slot r has just been answered by the stream handler
StreamAnswered(r) ==
    /\ req[r].op = "stream" /\ req[r].pc \in {"start", "apply"}
    /\ req'[r].pc = "done"
\* the level's video reference is unset or the placeholder
VideoUnset(n) == n \notin Levels \/ levels[n] \in {NullVideo, PendingVideo}
\* the currentLevel the stream handler compares with: 1 without a record
LearnerLevel ==
    IF LearnerProgress = NoDoc \/ LearnerProgress.currentLevel = 0 THEN 1
    ELSE LearnerProgress.currentLevel

\* C13: the stream handler answers with the first failing check of: level
\* or video missing (404), course unpublished for a non-admin (404),
\* entitlement false (403), level above currentLevel for a non-admin (403);
\* it delivers video (200) only when all four pass, and then the only other
\* answer is the 400 for a stored reference with a host that is not allowed.
C13_CheckOrder ==
    [][\A r \in LearnerSlots :
          StreamAnswered(r) =>
            LET n == req'[r].arg.level
                code == req'[r].resp.code
                why == req'[r].resp.why
            IN  IF VideoUnset(n) THEN code = 404 /\ why = "video"
                ELSE IF role # "admin" /\ course.status # "published"
                     THEN code = 404 /\ why = "course"
                ELSE IF ~EntitlementRule(IsApproved(payments))
                     THEN code = 403 /\ why = "payment"
                ELSE IF role # "admin" /\ n > LearnerLevel
                     THEN code = 403 /\ why = "sequence"
                ELSE \/ code = 200 /\ why \in {"served", "proxied"}
                     \/ code = 400 /\ why = "host"]_vars

\* a student with an approved payment asked for a level of an unpublished
\* course and got 404
C13_Witness ==
    \E r \in LearnerSlots :
        /\ req[r].op = "stream" /\ req[r].pc = "done"
        /\ req[r].resp = [code |-> 404, why |-> "course"]
        /\ role = "student" /\ course.status = "draft" /\ course.price > 0
        /\ IsApproved(payments)
        /\ ~VideoUnset(req[r].arg.level)

\* the header is bytes=start-end or bytes=start-, start and end digit strings
AllDigits(text) == \A i \in 1..Len(text) : text[i] \in Digits
WellFormedRange(h) ==
    /\ Len(h) >= 3 /\ h[1] = "bytes="
    /\ \E i \in 3..Len(h) :
          /\ h[i] = "-"
          /\ AllDigits(SubSeq(h, 2, i - 1))
          /\ AllDigits(SubSeq(h, i + 1, Len(h)))
\* the decimal value of a digit string
RECURSIVE Decimal(_)
Decimal(text) ==
    IF text = <<>> THEN 0
    ELSE 10 * Decimal(SubSeq(text, 1, Len(text) - 1)) + DigitValue(text[Len(text)])
\* start and end texts of a well-formed header
DashAt(h) == CHOOSE i \in 3..Len(h) : h[i] = "-"
StartText(h) == SubSeq(h, 2, DashAt(h) - 1)
EndText(h) == SubSeq(h, DashAt(h) + 1, Len(h))

\* C14 as stated: for a header bytes=start-end with 0 <= start < S the answer
\* is 206 with Content-Range start-end/S, Accept-Ranges bytes, Content-Length
\* end-start+1 and a body of exactly the bytes start..end (end = S-1 when
\* omitted), so that Content-Length is the number of bytes streamed.
C14_Original ==
    (rng.pc = "done" /\ WellFormedRange(rng.header)
       /\ Decimal(StartText(rng.header)) < rng.size)
    => LET start == Decimal(StartText(rng.header))
           end == IF EndText(rng.header) = <<>> THEN rng.size - 1
                  ELSE Decimal(EndText(rng.header))
       IN  /\ rng.resp.code = 206
           /\ rng.resp.contentRange = <<start, end, rng.size>>
           /\ rng.resp.acceptRanges = "bytes"
           /\ rng.resp.contentLength = end - start + 1
           /\ Len(rng.resp.body) = rng.resp.contentLength
           /\ \A i \in 1..Len(rng.resp.body) : rng.resp.body[i] = start + i - 1

\* a range that ends inside the file was served as the claim says
C14_Witness ==
    /\ rng.pc = "done"
    /\ rng.header = <<"bytes=", "0", "-", "2">>
    /\ rng.size = 3
    /\ rng.resp.code = 206 /\ rng.resp.contentLength = 3
    /\ rng.resp.body = <<0, 1, 2>>

\* the start of a header bytes=... is a non-negative integer: the text
\* between the unit and the first dash (the whole rest when there is no dash)
\* is a non-empty digit string
ValidStart(h) ==
    /\ LET rest == SubSeq(h, 2, Len(h))
           text == IF \E i \in 1..Len(rest) : rest[i] = "-"
                   THEN SubSeq(rest, 1, (CHOOSE i \in 1..Len(rest) :
                            rest[i] = "-" /\ \A j \in 1..(i - 1) : rest[j] # "-") - 1)
                   ELSE rest
       IN  text # <<>> /\ AllDigits(text)
StartValue(h) ==
    LET rest == SubSeq(h, 2, Len(h))
    IN  Decimal(IF \E i \in 1..Len(rest) : rest[i] = "-"
                THEN SubSeq(rest, 1, (CHOOSE i \in 1..Len(rest) :
                         rest[i] = "-" /\ \A j \in 1..(i - 1) : rest[j] # "-") - 1)
                ELSE rest)

\* C15 as stated: a ranged request whose start is not a valid non-negative
\* integer or is >= S is answered 416 with Content-Range bytes */S, an empty
\* body and no read stream opened; a request without Range header is
\* answered 200 with Content-Length S.
C15_Original ==
    rng.pc = "done" =>
       IF rng.header = <<>>
       THEN rng.resp.code = 200 /\ rng.resp.contentLength = rng.size
       ELSE ( /\ rng.header[1] = "bytes="
              /\ ~ValidStart(rng.header) \/ StartValue(rng.header) >= rng.size )
            => /\ rng.resp.code = 416
               /\ rng.resp.contentRange = <<rng.size>>
               /\ rng.resp.body = <<>>
               /\ ~rng.resp.opened

\* a start at the file size was answered 416
C15_Witness ==
    /\ rng.pc = "done"
    /\ rng.header = <<"bytes=", "2", "-">>
    /\ rng.size = 2
    /\ rng.resp.code = 416 /\ rng.resp.contentRange = <<2>>


\* a metadata request of the learner's slot has been answered
MetadataOps == {"levels-list", "level-get", "next-level", "get-progress", "course-view"}
MetadataAnswered(q) ==
    /\ req[q].pc = "done" /\ req[q].op \in MetadataOps
    /\ req[q].resp.code = 200

\* C16: no response of a metadata endpoint to a caller who is not an admin
\* contains a level's stored video reference: no Level object of such a
\* response has a videoPath that holds the reference of a level with a video.
C16_Original ==
    \A q \in LearnerSlots :
        (MetadataAnswered(q) /\ role # "admin") =>
            \A i \in 1..Len(req[q].body) :
                "videoPath" \in DOMAIN req[q].body[i]
                    => ~HasVideo(req[q].body[i].levelNumber)

\* C16 happens: a student is sent a level by the levels routes, without its
\* reference, while the level has one
C16_Witness ==
    \E q \in LearnerSlots :
        /\ MetadataAnswered(q) /\ role # "admin"
        /\ req[q].op = "level-get"
        /\ HasVideo(req[q].arg.level)
        /\ "videoPath" \notin DOMAIN req[q].body[1]


\* C17: external references are validated when written: in every state a
\* stored external reference has an allow-listed host, and the stream never
\* rejects a stored reference because of its host.
C17_Original ==
    /\ \A n \in Levels :
          IsRemoteUrl(levels[n]) => IsAllowedExternalVideoHost(levels[n].host)
    /\ \A q \in LearnerSlots :
          (req[q].op = "stream" /\ req[q].pc = "done")
              => ~(req[q].resp.code = 400 /\ req[q].resp.why = "host")

\* C17 happens: PUT /levels/:id/video-link has refused a link because of its
\* host and the levels hold no reference of that host
C17_Witness ==
    /\ req[VerifierSlot].pc = "done" /\ req[VerifierSlot].op = "video-link"
    /\ req[VerifierSlot].resp = [code |-> 400, why |-> "host"]
    /\ \A n \in Levels : levels[n].host # req[VerifierSlot].arg.url.host


\* the upstream has answered the proxied fetch with headers
UpstreamAnswered == xfer.phase \in {"piping", "ended"} /\ xfer.status # 0

\* C18: in proxy mode every upstream response whose content type is an HTML
\* page ends the request with 502 and no byte of the upstream body forwarded;
\* a fetch that fails before headers are sent also yields 502.
C18_Original ==
    /\ (UpstreamAnswered /\ IsHtml(xfer.contentType))
          => (xfer.code = 502 /\ xfer.forwarded = 0)
    /\ (xfer.phase = "ended" /\ xfer.upstream = "failed") => xfer.code = 502

\* C18 happens: an HTML page with a body was answered with 502
C18_Witness ==
    /\ UpstreamAnswered /\ IsHtml(xfer.contentType) /\ xfer.left > 0
    /\ xfer.code = 502 /\ xfer.forwarded = 0

\* C19: no state is reachable in which the client has disconnected and the
\* upstream transfer keeps running with no abort pending.
C19_Original ==
    ~( /\ xfer.phase # "idle"
       /\ xfer.client = "closed"
       /\ xfer.upstream \in {"fetching", "open"}
       /\ ~xfer.aborted )

\* C19 happens: the client disconnected while the upstream headers were
\* awaited and the fetch was aborted
C19_Witness ==
    /\ xfer.phase \in {"fetching", "ended"}
    /\ xfer.client = "closed" /\ xfer.aborted /\ xfer.upstream = "aborted"


\* a payment save of slot q commits in this step
PaymentSaved(q) ==
    /\ req[q].pc = "write" /\ req[q].op \in {"submit", "status"}
    /\ req'[q].pc = "done" /\ req'[q].resp.code \in {200, 201}

\* the status of the saved record before the save, "absent" for a new record
StatusBefore(q) ==
    IF req'[q].id \in 1..Len(payments) THEN payments[req'[q].id].status
    ELSE "absent"

\* C20: each committed payment save schedules the notification its
\* transition determines: "payment submitted" when the record is new or the
\* status goes from rejected to pending, "status changed" for every other
\* change of the status, and none when the status does not change.
C20_Original ==
    [][\A q \in Slots :
          PaymentSaved(q) =>
              LET before == StatusBefore(q)
                  after == payments'[req'[q].id].status
              IN  req'[q].mail =
                      IF before = "absent" \/ (before = "rejected" /\ after = "pending")
                      THEN "submitted"
                      ELSE IF before # after THEN "status"
                      ELSE "none"]_vars

\* C20 happens: PUT /payments/:id/status has put a rejected payment back to
\* pending and the save scheduled the notification of a submission
C20_Witness ==
    /\ req[VerifierSlot].pc = "done" /\ req[VerifierSlot].op = "status"
    /\ req[VerifierSlot].resp.code = 200
    /\ req[VerifierSlot].read.status = "rejected"
    /\ req[VerifierSlot].arg.status = "pending"
    /\ payments[req[VerifierSlot].id].status = "pending"
    /\ req[VerifierSlot].mail = "submitted"


\* the notifications scheduled in this step
NewlyScheduled == {e \in outbox' \ outbox : e.state = "scheduled"}

\* a notification runs in this step
NotificationRuns ==
    \E e \in outbox : e.state = "scheduled" /\ e \notin outbox'

\* C21: a notification is scheduled only in the step in which the payment
\* save it reports commits; an answer that is ready is sent whether or not
\* the notification has run; and a notification that runs, whatever becomes
\* of it, changes neither the payments nor any request's answer.
C21_Decoupled ==
    /\ [](\A q \in Slots : req[q].pc = "done" => ENABLED Respond(q))
    /\ [][ /\ \A e \in NewlyScheduled :
                 \E q \in Slots :
                     /\ PaymentSaved(q)
                     /\ req'[q].id = e.id /\ req'[q].mail = e.kind
                     /\ e.id \in 1..Len(payments')
           /\ NotificationRuns => (payments' = payments /\ req' = req) ]_vars

\* C21 happens: the answer of a payment save has been sent, the record is
\* stored, and the notification of the save then failed
C21_Witness ==
    /\ \A q \in Slots : req[q].pc # "done"
    /\ Len(payments) = 1 /\ payments[1].status = "pending"
    /\ [id |-> 1, kind |-> "submitted", state |-> "failed"] \in outbox
    /\ [id |-> 1, kind |-> "submitted", state |-> "scheduled"] \notin outbox


\* slot q answers a level-complete or a quiz submission in this step
ProgressRequestEnds(q) ==
    /\ req[q].op \in {"level-complete", "quiz-submit"}
    /\ req[q].pc = "apply" /\ req'[q].pc = "done"

\* the learner's Progress document after the step
LearnerProgressAfter ==
    IF \E i \in 1..Len(progress') : progress'[i].userId = Learner
    THEN progress'[CHOOSE i \in 1..Len(progress') : progress'[i].userId = Learner]
    ELSE NoDoc

\* C22: course completion is recorded idempotently: a record whose
\* currentLevel is above the level count has courseCompleted, totalProgress
\* 100 and a completion timestamp after the mutation, and once courseCompleted
\* is true no later level-complete or quiz-submit changes courseCompletedAt.
C22_Original ==
    [][\A q \in LearnerSlots :
          (ProgressRequestEnds(q) /\ req'[q].resp.code = 200) =>
              /\ LearnerProgressAfter.currentLevel > NumLevels
                    => /\ LearnerProgressAfter.courseCompleted
                       /\ LearnerProgressAfter.totalProgress = 100
                       /\ LearnerProgressAfter.courseCompletedAt # 0
              /\ (LearnerProgress # NoDoc /\ LearnerProgress.courseCompleted)
                    => LearnerProgressAfter.courseCompletedAt
                           = LearnerProgress.courseCompletedAt]_vars

\* C22 happens: the learner has completed the course and the record has its
\* first completion timestamp
C22_Witness ==
    /\ LearnerProgress # NoDoc
    /\ LearnerProgress.currentLevel > NumLevels
    /\ LearnerProgress.courseCompleted
    /\ LearnerProgress.totalProgress = 100
    /\ LearnerProgress.courseCompletedAt = 1


\* the number of Progress records of the learner's (learner, course) pair
PairProgress == Cardinality({i \in 1..Len(progress) : progress[i].userId = Learner})

\* C23: in every reachable state there is at most one Progress record of the
\* pair, also when the find and the create of concurrent requests interleave;
\* a create that comes second fails and adds no record.
C23_OneProgressPerPair ==
    /\ [](PairProgress <= 1)
    /\ [][\A q \in Slots :
             (req[q].pc # "done" /\ req'[q].pc = "done"
                 /\ req'[q].resp = [code |-> 500, why |-> "server"])
               => progress' = progress]_vars

\* C23 happens: a request that found no record lost the creation to another
\* request and answers with the error, and the pair has one record
C23_Witness ==
    /\ PairProgress = 1
    /\ \E q \in Slots :
          /\ req[q].pc = "done"
          /\ req[q].resp = [code |-> 500, why |-> "server"]


\* C24: the hasAccess of GET /payments/course/:courseId/status is the
\* entitlement decision for the caller in the current state: true iff the
\* caller is an admin, the course is free or the caller's payment is approved.
C24_Original ==
    \A q \in LearnerSlots :
        (req[q].op = "payment-status" /\ req[q].pc = "done" /\ req[q].resp.code = 200)
          => (req[q].hasAccess <=> HasAccess(role, course.price, ApprovedPayment(Learner)))

\* C24 happens: an admin without an approved payment asks for the status of a
\* paid course and is answered
C24_Witness ==
    /\ role = "admin" /\ course.price > 0 /\ ~ApprovedPayment(Learner)
    /\ req["r1"].op = "payment-status" /\ req["r1"].pc = "done"
    /\ req["r1"].resp.code = 200


\* request q is a level listing that was answered
ListingAnswered(q) ==
    /\ req[q].op \in {"levels-list", "course-view"}
    /\ req[q].pc = "done" /\ req[q].resp.code = 200

\* the listing of request q reports level n as locked
ListedLocked(q, n) ==
    IF req[q].op = "levels-list" THEN req[q].body[n].locked ELSE n \in req[q].locked

\* C25 as stated: for a non-admin learner with a Progress record both
\* listings report level N as locked iff N > currentLevel, in every payment
\* state.
C25_Original ==
    \A q \in LearnerSlots :
        (ListingAnswered(q) /\ role # "admin" /\ LearnerProgress # NoDoc)
          => \A n \in Levels :
                ListedLocked(q, n) <=> n > LearnerProgress.currentLevel

\* C25: for a non-admin learner with a Progress record both listings report
\* level N as locked iff N > currentLevel while the learner has access (free
\* course or approved payment), and report every level as locked while the
\* learner has none.
C25_LockedAboveCurrent ==
    \A q \in LearnerSlots :
        (ListingAnswered(q) /\ role # "admin" /\ LearnerProgress # NoDoc)
          => \A n \in Levels :
                ListedLocked(q, n) <=>
                    IF HasAccess(role, course.price, ApprovedPayment(Learner))
                    THEN n > LearnerProgress.currentLevel
                    ELSE TRUE

\* C25 happens: a learner with access at level 1 gets the course with level 1
\* open and level 2 locked
C25_Witness ==
    /\ role = "student" /\ LearnerProgress # NoDoc
    /\ LearnerProgress.currentLevel = 1
    /\ HasAccess(role, course.price, ApprovedPayment(Learner))
    /\ ListingAnswered("r1") /\ req["r1"].op = "course-view"
    /\ ~ListedLocked("r1", 1) /\ ListedLocked("r1", 2)


\* the Progress document doc has an entry for level n with completed = true
CompletedIn(doc, n) ==
    /\ doc # NoDoc
    /\ LevelIndex(doc, n) > 0
    /\ doc.completedLevels[LevelIndex(doc, n)].completed

\* C26: a per-level entry only moves forward: once an entry has completed =
\* true, no later level-complete request and no later quiz submission sets
\* completed back to false.
C26_Original ==
    [][\A n \in Levels :
          CompletedIn(LearnerProgress, n) => CompletedIn(LearnerProgressAfter, n)]_vars

\* C26 happens: the learner is past level 1, which takes a completed entry,
\* and the entry of level 1 says completed = false
C26_Witness ==
    /\ LearnerProgress # NoDoc
    /\ LearnerProgress.currentLevel > 1
    /\ LevelIndex(LearnerProgress, 1) > 0
    /\ ~CompletedIn(LearnerProgress, 1)


\* the entry of the quiz level holds a pass recorded by a quiz submission
PassRecorded ==
    /\ LearnerProgress # NoDoc
    /\ LevelIndex(LearnerProgress, QuizLevel) > 0
    /\ QuizEntry.quizPassed /\ QuizEntry.quizScore >= PassingScore
\* request r is a level-complete of the quiz level with the video watched,
\* which this step applies
VideoReported(r) ==
    /\ req[r].op = "level-complete" /\ req[r].pc = "apply"
    /\ req'[r].pc = "done" /\ req'[r].resp.code = 200
    /\ req'[r].arg.level = QuizLevel
    /\ req'[r].arg.percent >= VideoThreshold

\* C27: the unlocking of the quiz level does not depend on the order of its
\* two conditions: a passing quiz submission after a recorded video of 90 or
\* more, and a level-complete reporting 90 or more after a recorded quiz pass,
\* both leave currentLevel above the quiz level, and the level-complete keeps
\* the recorded pass.
C27_Original ==
    [][\A r \in LearnerSlots :
          /\ ( /\ QuizApplied(r) /\ req'[r].resp.code = 200
               /\ req'[r].score >= PassingScore
               /\ StoredPercent >= VideoThreshold )
                => LearnerProgressAfter.currentLevel > QuizLevel
          /\ (VideoReported(r) /\ PassRecorded)
                => /\ LearnerProgressAfter.currentLevel > QuizLevel
                   /\ QuizEntry'.quizPassed]_vars

\* C27 happens: the quiz level has a counted attempt, a pass and 90 or more
\* watched, and the learner is still at the quiz level
C27_Witness ==
    /\ LearnerProgress # NoDoc
    /\ LevelIndex(LearnerProgress, QuizLevel) > 0
    /\ QuizEntry.quizAttempts > 0 /\ QuizEntry.quizPassed
    /\ QuizEntry.videoWatchedPercent >= VideoThreshold
    /\ LearnerProgress.currentLevel = QuizLevel


\* request r is a POST /payments whose write this step performs
SubmitWrites(r) ==
    /\ req[r].op = "submit" /\ req[r].pc = "write"
    /\ req'[r].pc = "done"

\* C28: POST /payments never overwrites a payment that is approved or pending
\* at the moment of its write, also when the verifier's approval commits
\* between the resubmission's read of the rejected record and its save: the
\* record keeps its status and verifier fields and the learner keeps the
\* entitlement.
C28_Original ==
    [][\A r \in LearnerSlots :
          SubmitWrites(r) =>
              /\ \A i \in 1..Len(payments) :
                    payments[i].status \in {"approved", "pending"}
                        => payments'[i] = payments[i]
              /\ ApprovedPayment(Learner) => ApprovedPayment(Learner)']_vars

\* C28 happens: a resubmission that read the rejected record stands before
\* its save while the record is approved
C28_Witness ==
    \E r \in LearnerSlots :
        /\ req[r].op = "submit" /\ req[r].pc = "write"
        /\ req[r].loc # NoDoc /\ req[r].loc.status = "rejected"
        /\ payments[req[r].loc.id].status = "approved"
        /\ payments[req[r].loc.id].verifiedBy = Verifier


\* request r is a quiz submission that this step accepts: saved and scored
SubmissionAccepted(r) ==
    /\ req[r].op = "quiz-submit" /\ req[r].pc = "save"
    /\ req'[r].pc = "done" /\ req'[r].resp.code = 200

\* C29: the accepted and scored quiz submissions of a non-admin learner never
\* exceed maxAttempts, also when submissions interleave between the read of
\* quizAttempts and the save: the stored counter stays within maxAttempts and
\* each accepted submission raises it by exactly one.
C29_Original ==
    /\ [](StoredAttempts <= QuizMaxAttempts)
    /\ [][\A r \in LearnerSlots :
             SubmissionAccepted(r) => StoredAttempts' = StoredAttempts + 1]_vars

\* C29 happens: two submissions have read the same quizAttempts and both
\* stand before their save
C29_Witness ==
    /\ req["r1"].op = "quiz-submit" /\ req["r1"].pc = "save"
    /\ req["r2"].op = "quiz-submit" /\ req["r2"].pc = "save"
    /\ LevelIndex(req["r1"].loc, QuizLevel) > 0
    /\ req["r1"].loc = req["r2"].loc


\* the learner has completed the course
CourseDone ==
    /\ LearnerProgress # NoDoc
    /\ LearnerProgress.currentLevel = NumLevels + 1
    /\ LearnerProgress.courseCompleted
    /\ LearnerProgress.totalProgress = 100

\* C30: a learner with access who, level by level, reports the video as
\* watched and then, for a quiz level, submits a passing quiz within
\* maxAttempts eventually has currentLevel = n + 1, courseCompleted and
\* totalProgress = 100, and none of these requests is refused on the way.
C30_Progression ==
    /\ <>CourseDone
    /\ [][\A r \in LearnerSlots :
             ProgressRequestEnds(r) => req'[r].resp.code = 200]_vars

\* C30 happens: the learner has completed the course with the last quiz
\* attempt, after failed ones
C30_Witness ==
    /\ CourseDone
    /\ QuizEntry.quizAttempts = QuizMaxAttempts
    /\ QuizEntry.quizPassed /\ QuizEntry.completed

====
